---------------------------- MODULE Spec2Model ----------------------------
(***************************************************************************)
(* A model of glockenspiel.ino: the Arduino sketch that plays MIDI files   *)
(* from an SD card on 19 solenoid-struck chimes.                           *)
(*                                                                         *)
(* The sketch is one cooperative handler, loop(), called again and again   *)
(* by the Arduino runtime.  One step of the model is one call of loop():   *)
(* it samples and debounces the five buttons, toggles the shuffle flag,    *)
(* runs one case of the player's state machine and drives the LEDs.        *)
(*                                                                         *)
(* 32-bit words.  `long' and `unsigned long' are 32 bits wide on the AVR.  *)
(* A word is kept as the integer of MinLong..MaxLong that is congruent to  *)
(* it modulo 2^32: for a `long' that is its value; for an `unsigned long'  *)
(* u it is u when u < 2^31 and u - 2^32 otherwise.  AddW, SubW and MulW    *)
(* wrap as the hardware does, LtU compares two words as unsigned values.   *)
(***************************************************************************)
EXTENDS Integers, Sequences, FiniteSets

(***************************************************************************)
(* Program constants                                                       *)
(***************************************************************************)
MaxLong == 2147483647
MinLong == -MaxLong - 1

MIN_NOTE_NUM == 72
pinNoteOffset ==
  <<23, 25, 27, 29, 31, 33, 35, 37, 39, 41, 22, 24, 26, 28, 30, 32, 34, 36, 38>>
NUM_NOTE_PINS == Len(pinNoteOffset)
MS_PER_STRIKE == 3
MAX_BOUNCE_MS == 50
MAX_MICROS_TO_DELAY == 11 * 1000
MAX_QUEUED_EVENTS == NUM_NOTE_PINS

STATE_ERROR == 0
STATE_STOPPED == 1
STATE_PAUSED == 2
STATE_END_FILE == 3
STATE_END_TRACK == 4
STATE_EVENTS == 5
STATE_WAITING == 6

States ==
  {STATE_ERROR, STATE_STOPPED, STATE_PAUSED, STATE_END_FILE, STATE_END_TRACK,
   STATE_EVENTS, STATE_WAITING}

\* The five buttons, in the order loop() samples them.
Channels == {"On", "Play", "Back", "Forward", "Shuffle"}

\* The two buttons whose reading loop() inverts ("miswired to NC vs. NO").
Inverted == {"Forward", "Shuffle"}

(***************************************************************************)
(* 32-bit arithmetic                                                       *)
(***************************************************************************)
AddW(a, b) ==
  IF a >= 0 /\ b >= 0 /\ b > MaxLong - a THEN (a + MinLong) + (b + MinLong)
  ELSE IF a < 0 /\ b < 0 /\ b < MinLong - a THEN (a - MinLong) + (b - MinLong)
  ELSE a + b

NegW(a) == IF a = MinLong THEN MinLong ELSE -a

SubW(a, b) == AddW(a, NegW(b))

\* a < b, both read as unsigned long
LtU(a, b) == IF (a >= 0) = (b >= 0) THEN a < b ELSE a >= 0

RECURSIVE MulNat(_, _)
MulNat(a, n) ==
  IF n = 0 THEN 0
  ELSE IF n % 2 = 1 THEN AddW(a, MulNat(AddW(a, a), n \div 2))
  ELSE MulNat(AddW(a, a), n \div 2)

\* a * b modulo 2^32
MulW(a, b) ==
  IF b >= 0 THEN MulNat(a, b)
  ELSE IF b = MinLong THEN (IF a % 2 = 1 THEN MinLong ELSE 0)
  ELSE NegW(MulNat(a, -b))

\* an unsigned long modulo 1000 (2^32 % 1000 = 296)
ModU1000(a) == IF a >= 0 THEN a % 1000 ELSE ((a % 1000) + 296) % 1000


(***************************************************************************)
(* State                                                                   *)
(***************************************************************************)
VARIABLES
  \* the sketch's globals
  state,              \* char state
  pausedState,        \* char pausedState
  microsBehindNext,   \* unsigned long microsBehindNext
  doShuffle,          \* boolean doShuffle
  isShuffled,         \* boolean isShuffled
  pressedButton,      \* pressedButtonOn, ...Play, ...Back, ...Forward, ...Shuffle
  heldButton,         \* heldButtonOn, ...
  changedButtonMs,    \* changedButtonOnMs, ...
  microsPerTick,      \* long microsPerTick
  startMicros,        \* unsigned long startMicros
  microsSinceStart,   \* unsigned long microsSinceStart
  queue,              \* queue[0 .. numQueued-1], the live part of int queue[]
  numQueued,          \* int numQueued
  isPushedBack,       \* char isPushedBack
  numPlaylistTitles,  \* uint8_t numPlaylistTitles
  playOrder,          \* what playOrder[0 .. numPlaylistTitles-1] reads as
  playOrderSize,      \* entries malloc()ed for playOrder; -1: a null pointer
  nowPlayingIdx,      \* uint8_t nowPlayingIdx
  \* the hardware and the libraries the sketch drives
  clockMs,            \* what millis() returns
  usFrac,             \* micros() = 1000 * millis() + usFrac (modulo 2^32)
  tmpLines,           \* lines of playlist.tmp on the SD card; -1: no such file
  fileOpen,           \* playingFile is open
  midiOpen,           \* midiFile has begun and not ended
  ev,                 \* the event midiFile holds (getEventType() and so on)
  evRead,             \* events read from the open track
  chunks,             \* chunks opened in the open file
  leds,               \* the five LED outputs
  high,               \* the note pins that are HIGH
  heap,               \* the blocks malloc()ed and the pointers that own them
  \* history of the run
  did,                \* what the last call of loop() did
  arrivals,           \* Note-On pitches presented since the last flush or reset
  pauseMicros,        \* micros() as doPause() last read it
  parked,             \* the player's place when doPause() was last called
  intents,            \* changeOnOff, changePlayPause, skipBack, skipForward,
                      \* changeShuffle as the last call of loop() left them
  sampledMs,          \* millis() as the debounce blocks last read it
  edges,              \* calls of loop() that saw a raw reading change
  nLoops              \* calls of loop() so far

buttonVars == <<pressedButton, heldButton, changedButtonMs>>
clockVars == <<startMicros, microsSinceStart, microsPerTick>>
queueVars == <<queue, numQueued, isPushedBack>>
orderVars == <<numPlaylistTitles, playOrder, playOrderSize, nowPlayingIdx, isShuffled>>
pauseVars == <<pausedState, microsBehindNext, pauseMicros, parked>>
readerVars == <<ev, evRead, chunks>>
fileVars == <<fileOpen, midiOpen>>
timeVars == <<clockMs, usFrac>>

vars ==
  <<state, doShuffle, buttonVars, clockVars, queueVars, orderVars, pauseVars,
    readerVars, fileVars, timeVars, tmpLines, leds, high, heap, did,
    arrivals,
    intents, sampledMs, edges, nLoops>>

(***************************************************************************)
(* The clock (millis(), micros(), delay(), delayMicroseconds())            *)
(***************************************************************************)
\* micros() when millis() = ms and the microseconds past it are frac
Micros(ms, frac) == AddW(MulW(ms, 1000), frac)

\* the clock <<ms, frac>> after us more microseconds
After(now, us) ==
  <<AddW(now[1], (now[2] + us) \div 1000), (now[2] + us) % 1000>>

(***************************************************************************)
(* The MIDI reader (MidiFileStream)                                        *)
(***************************************************************************)
TicksPerBeat == 480

MidiEvent(t, d, c, p, u) ==
  [type |-> t, deltaTicks |-> d, code |-> c, param1 |-> p, uSecPerBeat |-> u]

NoteOn(d, p) == MidiEvent("ET_CHANNEL", d, "CH_NOTE_ON", p, 0)
NoteOff(d, p) == MidiEvent("ET_CHANNEL", d, "CH_NOTE_OFF", p, 0)
Tempo(d, u) == MidiEvent("ET_TEMPO", d, "", 0, u)
Meta(d) == MidiEvent("ET_META", d, "", 0, 0)
EndTrack(d) == MidiEvent("ET_END_TRACK", d, "", 0, 0)
EndOfEvents == MidiEvent("ET_END", 0, "", 0, 0)
BadEvent == MidiEvent("ET_UNK", 0, "", 0, 0)
NoEvent == MidiEvent("none", 0, "", 0, 0)

\* What midiFile.readEvent() may return.  P.script[i] is the set of events
\* the i-th read of a track may deliver; a track that outlasts the script
\* ends with an end-of-track event, and after that with ET_END.
ReadEvent(P) ==
  IF ev.type = "ET_END_TRACK" THEN {EndOfEvents}
  ELSE IF evRead < Len(P.script) THEN P.script[evRead + 1]
  ELSE {EndTrack(0)}

\* What midiFile.openChunk() may return.
OpenChunk(P) ==
  IF chunks < P.tracks THEN {"CT_MTRK", "CT_END", "CT_OTHER"} ELSE {"CT_END"}

(***************************************************************************)
(* The play order: setPlayOrder(), getNextFilename()                       *)
(***************************************************************************)
\* uint8_t arithmetic
U8(n) == n % 256

\* What a cell outside the malloc()ed block may read as after the sketch
\* wrote v to it: the write is undefined behaviour, the cell belongs to
\* another owner (or to nobody) and may have been overwritten since.
GarbageByte == 255
WildCell(v) == {v, GarbageByte}

\* playOrder[i] = i for i < n; as a sequence, cell i is element i + 1
InOrder(n) == [i \in 1 .. n |-> i - 1]

\* order with cells i and j (counted from 0) exchanged
Swap(order, i, j) ==
  [order EXCEPT ![i + 1] = order[j + 1], ![j + 1] = order[i + 1]]

\* The Fisher-Yates loop of setPlayOrder() from numLeft down to 2: every
\* order that the draws i = random(numLeft) in 0 .. numLeft-1 can produce.
RECURSIVE FisherYates(_, _)
FisherYates(order, numLeft) ==
  IF numLeft <= 1 THEN {order}
  ELSE UNION {FisherYates(Swap(order, i, numLeft - 1), numLeft - 1) :
                i \in 0 .. numLeft - 1}

\* The orders setPlayOrder() can leave in playOrder[0 .. n-1], when size
\* entries are allocated (-1: playOrder is null) and shuffle is the value of
\* doShuffle.  Cells at size and beyond are outside the allocation.
SetPlayOrder(n, size, shuffle) ==
  LET written == IF shuffle THEN FisherYates(InOrder(n), n) ELSE {InOrder(n)}
      inside == IF size < 0 THEN 0 ELSE size
  IN  IF inside >= n THEN written
      ELSE UNION {{o, [i \in 1 .. n |-> IF i <= inside THEN o[i] ELSE GarbageByte]} :
                    o \in written}

\* isShuffled as setPlayOrder() leaves it
SetIsShuffled(shuffle) == shuffle

\* Variant of NextTitle for PlaylistIsCircular: the cursor goes on past the
\* last entry, the order is not rebuilt.
NextTitleOnce(shuffle) ==
  LET idx == U8(nowPlayingIdx + 1)
  IN  {<<idx, playOrder, isShuffled, c>> :
         c \in IF idx < numPlaylistTitles
               THEN {playOrder[idx + 1]}
               ELSE WildCell(0)}

\* Variant of NextTitle for RebuildRule: the order is rebuilt whenever
\* doShuffle is set, not only when it differs from the tag.
NextTitleWhenShuffling(shuffle) ==
  LET idx == U8(nowPlayingIdx + 1)
      rebuild == idx >= numPlaylistTitles \/ shuffle
      idx2 == IF rebuild THEN 0 ELSE idx
      orders == IF rebuild
                THEN SetPlayOrder(numPlaylistTitles, playOrderSize, shuffle)
                ELSE {playOrder}
      tag == IF rebuild THEN SetIsShuffled(shuffle) ELSE isShuffled
  IN  UNION {{<<idx2, o, tag, c>> :
                c \in IF idx2 < numPlaylistTitles
                      THEN {o[idx2 + 1]}
                      ELSE WildCell(0)} :
             o \in orders}

\* getNextFilename() up to "chosenLineNum = playOrder[nowPlayingIdx]": the
\* set of <<nowPlayingIdx, playOrder, isShuffled, chosenLineNum>> it can
\* produce.  shuffle is the value of doShuffle.
NextTitle(shuffle) ==
  LET idx == U8(nowPlayingIdx + 1)
      rebuild == idx >= numPlaylistTitles \/ shuffle # isShuffled
      idx2 == IF rebuild THEN 0 ELSE idx
      orders == IF rebuild
                THEN SetPlayOrder(numPlaylistTitles, playOrderSize, shuffle)
                ELSE {playOrder}
      tag == IF rebuild THEN SetIsShuffled(shuffle) ELSE isShuffled
  IN  UNION {{<<idx2, o, tag, c>> :
                c \in IF idx2 < numPlaylistTitles
                      THEN {o[idx2 + 1]}
                      ELSE WildCell(0)} :
             o \in orders}

(***************************************************************************)
(* What one call of loop() did (history only)                              *)
(***************************************************************************)
\* read: readEvent() was called; consumed: an event passed the push-back
\* test and the overflow check, so its delta was added to microsSinceStart;
\* dropped: a Note-On found the queue full; struck: the pins pulsed, in
\* order; opened: SD.open(playingFname) was called; started: the start
\* sequence of STATE_STOPPED ran; overflow: the overflow check abandoned the
\* file; resumed: STATE_PAUSED resumed; waited: the argument of
\* delayMicroseconds() (0: not called); indexed: the indexes pinNoteOffset[]
\* was read at; writes: the digitalWrite() calls on the note pins, in order.
\* What the call met: url, the kind
\* of playlistUrl readConfiguration() left; named, whether the card and the
\* heap let cacheFile(playlistUrl) make a name; chosen, chosenLineNum of
\* getNextFilename() (-1: not called); file, what the SD card did with the
\* chosen file; chunk, what openChunk() returned; stale, the numQueued that
\* the start of playback found.
Idle ==
  [read |-> FALSE, consumed |-> FALSE, dropped |-> FALSE, struck |-> <<>>,
   opened |-> FALSE, started |-> FALSE, overflow |-> FALSE,
   resumed |-> FALSE, waited |-> 0, indexed |-> <<>>, writes |-> <<>>,
   url |-> "none", named |-> FALSE, chosen |-> -1,
   file |-> "none", chunk |-> "none", stale |-> 0]

(***************************************************************************)
(* Pieces shared by the cases of the switch                                *)
(***************************************************************************)
Clock(now) == clockMs' = now[1] /\ usFrac' = now[2]

\* Variant of CloseFile for Recoverable: the MIDI stream is left as it is.
CloseFileOnly == fileOpen' = FALSE /\ midiOpen' = midiOpen

\* midiFile.end(); playingFile.close();
CloseFile == fileOpen' = FALSE /\ midiOpen' = FALSE

\* Variant of StopPlaying for OnOffStops: the file is closed but the state is
\* left as it was.
StopPlayingStays(now) ==
  /\ CloseFile
  /\ Clock(now)
  /\ did' = Idle
  /\ UNCHANGED <<state, clockVars, queueVars, orderVars, pauseVars,
                 readerVars, tmpLines, arrivals>>

\* "Handle the on/off button" in STATE_PAUSED, STATE_END_TRACK, STATE_EVENTS
\* and STATE_WAITING
StopPlaying(now) ==
  /\ CloseFile
  /\ state' = STATE_STOPPED
  /\ Clock(now)
  /\ did' = Idle
  /\ UNCHANGED <<clockVars, queueVars, orderVars, pauseVars, readerVars,
                 tmpLines, arrivals>>

\* The player's place: its state, the queue, the lookahead flag, the track
\* clock but for its anchor, the play order and the cursor.
Place ==
  <<state, queue, numQueued, isPushedBack, microsSinceStart, microsPerTick,
    playOrder, nowPlayingIdx>>

\* Variant of doPause for PausedFromPlaying: the state is not saved.
doPauseUnsaved(now) ==
  /\ microsBehindNext' =
       SubW(AddW(startMicros, microsSinceStart), Micros(now[1], now[2]))
  /\ pauseMicros' = Micros(now[1], now[2])
  /\ parked' = Place
  /\ state' = STATE_PAUSED
  /\ Clock(now)
  /\ did' = Idle
  /\ UNCHANGED <<pausedState, clockVars, queueVars, orderVars, readerVars,
                 fileVars, tmpLines, arrivals>>

\* doPause()
doPause(now) ==
  /\ pausedState' = state
  /\ microsBehindNext' =
       SubW(AddW(startMicros, microsSinceStart), Micros(now[1], now[2]))
  /\ pauseMicros' = Micros(now[1], now[2])
  /\ parked' = Place
  /\ state' = STATE_PAUSED
  /\ Clock(now)
  /\ did' = Idle
  /\ UNCHANGED <<clockVars, queueVars, orderVars, readerVars, fileVars,
                 tmpLines, arrivals>>

\* Variant of SkipFile for SkipForward: the skip leaves the file for its
\* next track instead of the next file.
SkipFileToTrack(now, what) ==
  /\ state' = STATE_END_TRACK
  /\ Clock(now)
  /\ did' = what
  /\ UNCHANGED <<clockVars, queueVars, orderVars, pauseVars, fileVars,
                 tmpLines, arrivals>>

\* "Handle the Skip Forward button" in STATE_END_TRACK, STATE_EVENTS and
\* STATE_WAITING; also every "skip to the next file" after a failure
SkipFile(now, what) ==
  /\ CloseFile
  /\ state' = STATE_END_FILE
  /\ Clock(now)
  /\ did' = what
  /\ UNCHANGED <<clockVars, queueVars, orderVars, pauseVars, tmpLines, arrivals>>

(***************************************************************************)
(* case STATE_ERROR                                                        *)
(***************************************************************************)
\* Variant of ErrorCase for ErrorIsTerminal: an On/Off press in STATE_ERROR
\* is taken as a restart.
ErrorCaseRestarts(now) ==
  /\ state' = IF intents'["On"] THEN STATE_STOPPED ELSE state
  /\ Clock(now)
  /\ did' = Idle
  /\ UNCHANGED <<clockVars, queueVars, orderVars, pauseVars, readerVars,
                 fileVars, tmpLines, arrivals>>

ErrorCase(now) ==
  /\ Clock(now)
  /\ did' = Idle
  /\ UNCHANGED <<state, clockVars, queueVars, orderVars, pauseVars,
                 readerVars, fileVars, tmpLines, arrivals>>

(***************************************************************************)
(* The heap (malloc(), free()) and the pointers that own its blocks        *)
(***************************************************************************)
\* The malloc()ed globals of the sketch and the local cachedName of
\* transformSDPlaylist().
Owners ==
  {"playlistUrl", "wifiSsid", "wifiPassword", "playlistSDName",
   "playingFname", "playOrder", "cachedName"}

\* ptr: what each pointer holds ("null", "live": a block that is allocated,
\* "freed": the address of a block that was freed); live: the blocks that
\* are allocated; freed: the owners a block of which was ever freed.
NoHeap == [ptr |-> [o \in Owners |-> "null"], live |-> 0, freed |-> {}]

\* Variant of Free for NoLeak: the block is not given back.
FreeNot(h, o) == h

\* "if (p) { free(p); }"
Free(h, o) ==
  CASE h.ptr[o] = "live" ->
         [ptr |-> [h.ptr EXCEPT ![o] = "freed"], live |-> h.live - 1,
          freed |-> h.freed \cup {o}]
    [] OTHER -> h

\* "if (p) { free(p); p = 0; }"
Release(h, o) == [Free(h, o) EXCEPT !.ptr[o] = "null"]

\* "p = malloc(..)", "p = cfg.copyValue()", "p = cacheFile(..)": got tells
\* whether a block was returned.
Assign(h, o, got) ==
  IF got THEN [h EXCEPT !.ptr[o] = "live", !.live = h.live + 1]
  ELSE [h EXCEPT !.ptr[o] = "null"]

\* the pointer a setting of the configuration file is copied to
SettingOwner(name) ==
  CASE name = "ssid" -> "wifiSsid"
    [] name = "password" -> "wifiPassword"
    [] name = "playUrl" -> "playlistUrl"

\* The settings readConfiguration() reads at a start s: the network settings
\* of the file, then playUrl if the start leaves a playlistUrl.  got: whether
\* copyValue() returned a block.
Settings(s) ==
  s.wifi \o (IF s.url = "null" THEN <<>>
             ELSE <<[name |-> "playUrl", got |-> TRUE]>>)

\* the "while (cfg.readNextSetting())" loop of readConfiguration()
RECURSIVE ReadSettings(_, _)
ReadSettings(h, settings) ==
  IF settings = <<>> THEN h
  ELSE LET o == SettingOwner(Head(settings).name)
       IN  ReadSettings(Assign(Free(h, o), o, Head(settings).got),
                        Tail(settings))

\* readConfiguration()
ReadConfiguration(h, s) ==
  ReadSettings(Release(Release(Release(h, "playlistUrl"), "wifiSsid"),
                       "wifiPassword"),
               Settings(s))

\* transformSDPlaylist() caching and writing k entries
RECURSIVE CacheLines(_, _)
CacheLines(h, k) ==
  IF k = 0 THEN h
  ELSE CacheLines(Assign(Release(h, "cachedName"), "cachedName", TRUE), k - 1)

\* the heap as transformSDPlaylist() leaves it
TransformHeap(h, s) ==
  LET lines == CacheLines(h, s.n)
      next == Release(lines, "cachedName")
  IN  CASE s.list \in {"remove", "open", "create"} -> h
        [] s.list = "cache" -> Assign(next, "cachedName", FALSE)
        [] s.list = "write" ->
             Release(Assign(next, "cachedName", TRUE), "cachedName")
        [] s.list = "mem" -> Assign(Free(next, "playOrder"), "playOrder", FALSE)
        [] OTHER -> Assign(Free(next, "playOrder"), "playOrder", TRUE)

\* the heap as the start sequence of STATE_STOPPED leaves it
StartHeap(h, s, cached) ==
  LET named == Assign(Release(ReadConfiguration(h, s), "playlistSDName"),
                      "playlistSDName", cached)
  IN  IF cached THEN TransformHeap(named, s) ELSE named

\* The heaps getNextFilename() can leave.  found: playlist.tmp has the
\* chosen line; f: what the SD card and the heap did ("nolist" with the line
\* there: playlist.tmp did not open, or malloc() of playingFname failed).
NameHeap(h, found, f) ==
  IF ~found THEN {h}
  ELSE IF f = "nolist"
  THEN {h, Assign(Free(h, "playingFname"), "playingFname", FALSE)}
  ELSE {Assign(Free(h, "playingFname"), "playingFname", TRUE)}

(***************************************************************************)
(* case STATE_STOPPED                                                      *)
(***************************************************************************)
\* What the SD card can present at a start.  url: what readConfiguration()
\* leaves in playlistUrl ("null": no configuration file or no playUrl in
\* it; "http": an http:// url; "file": a file:// url or a bare name).
\* cached: cacheFile(playlistUrl) returned a name.  list: how
\* transformSDPlaylist() ends ("remove", "open", "create": one of its first
\* three steps fails; "cache", "write": caching or writing the entry after
\* the first n fails; "mem": malloc() of playOrder fails; "ok").  n: the
\* entries cached and written before that.
Starts(P) ==
  {[url |-> u, cached |-> c, list |-> l, n |-> k, wifi |-> w] :
     u \in P.urls, c \in BOOLEAN, l \in P.lists, k \in P.titles,
     w \in P.wifi}

\* Variant of CacheFile for StartLoads: an http:// url is taken for a bare
\* file name.
CacheFileAnyUrl(s) == s.cached

\* cacheFile(url) returns a name.  An http:// url is not supported.  With a
\* null url cacheFile() reads through a null pointer: either outcome.
CacheFile(s) == s.url # "http" /\ s.cached

\* transformSDPlaylist(): <<numPlaylistTitles, playOrderSize, tmpLines>>
TransformSDPlaylist(s) ==
  CASE s.list = "remove" /\ tmpLines >= 0 ->
         <<numPlaylistTitles, playOrderSize, tmpLines>>
    [] s.list \in {"remove", "open", "create"} ->
         <<numPlaylistTitles, playOrderSize, -1>>
    [] s.list = "cache" -> <<U8(s.n), playOrderSize, s.n>>
    [] s.list = "write" -> <<U8(s.n + 1), playOrderSize, s.n>>
    [] s.list = "mem" -> <<U8(s.n), -1, s.n>>
    [] OTHER -> <<U8(s.n), s.n, s.n>>

StoppedCase(P, now, changeOnOff, shuffle) ==
  IF ~changeOnOff
  THEN /\ Clock(now)
       /\ did' = Idle
       /\ UNCHANGED <<state, clockVars, queueVars, orderVars, pauseVars,
                      readerVars, fileVars, tmpLines, arrivals>>
  ELSE \E s \in Starts(P) :
         /\ Clock(now)
         /\ did' = [Idle EXCEPT !.started = TRUE, !.url = s.url,
                                 !.named = s.cached]
         /\ UNCHANGED <<clockVars, queueVars, pauseVars, readerVars, fileVars,
                        arrivals>>
         /\ heap' = StartHeap(heap, s, CacheFile(s))
         /\ IF ~CacheFile(s)
            THEN /\ state' = STATE_ERROR
                 /\ UNCHANGED <<orderVars, tmpLines>>
            ELSE LET t == TransformSDPlaylist(s)
                 IN  /\ numPlaylistTitles' = t[1]
                     /\ playOrderSize' = t[2]
                     /\ tmpLines' = t[3]
                     /\ playOrder' \in SetPlayOrder(t[1], t[2], shuffle)
                     /\ isShuffled' = SetIsShuffled(shuffle)
                     /\ nowPlayingIdx' = U8(t[1] + 255)
                     /\ state' = STATE_END_FILE

(***************************************************************************)
(* case STATE_PAUSED                                                       *)
(***************************************************************************)
\* Variant of Resume for ResumeKeepsWait: the track is re-anchored at the
\* time of the resume, the wait that was left at the pause is forgotten.
ResumeFromNow(now) == SubW(Micros(now[1], now[2]), microsSinceStart)

\* startMicros as the resume leaves it
Resume(now) ==
  SubW(AddW(Micros(now[1], now[2]), microsBehindNext), microsSinceStart)

\* Variant of ResumedState for ParkedInPlace: every resume goes back to
\* reading events, wherever the player was paused.
ResumedStateEvents == STATE_EVENTS

\* state as the resume leaves it
ResumedState == pausedState

PausedCase(now, changeOnOff, changePlayPause) ==
  IF changeOnOff THEN StopPlaying(now)
  ELSE IF ~changePlayPause
  THEN /\ Clock(now)
       /\ did' = Idle
       /\ UNCHANGED <<state, clockVars, queueVars, orderVars, pauseVars,
                      readerVars, fileVars, tmpLines, arrivals>>
  ELSE /\ startMicros' = Resume(now)
       /\ state' = ResumedState
       /\ Clock(now)
       /\ did' = [Idle EXCEPT !.resumed = TRUE]
       /\ UNCHANGED <<microsSinceStart, microsPerTick, queueVars, orderVars,
                      pauseVars, readerVars, fileVars, tmpLines, arrivals>>

(***************************************************************************)
(* case STATE_END_FILE                                                     *)
(***************************************************************************)
\* getNextFilename() returns true.  chosen is chosenLineNum and f what the
\* SD card does ("nolist": playlist.tmp cannot be opened, or malloc() of
\* playingFname fails).  curLineNum starts at (uint8_t) -1, so with an empty
\* playlist.tmp a chosenLineNum of 255 is "found" without a line being read.
GotFilename(chosen, f) ==
  /\ f # "nolist"
  /\ tmpLines >= 0
  /\ chosen < tmpLines \/ (tmpLines = 0 /\ chosen = 255)

\* playlist.tmp has the chosen line.  When it has not, getNextFilename()
\* returns before it frees playingFname.
FoundLine(chosen) ==
  /\ tmpLines >= 0
  /\ chosen < tmpLines \/ (tmpLines = 0 /\ chosen = 255)

\* long microsPerTick = 1: the tempo before any tempo event
InitialMicrosPerTick == 1

\* Variant of FileTempo for TempoOutlivesFile: every file selection puts
\* the tempo back to the 1 microsecond a tick of the declaration.
FileTempoDefault == InitialMicrosPerTick

\* microsPerTick as a file selection leaves it: nothing in STATE_END_FILE
\* assigns it, the start of playback included.
FileTempo == microsPerTick

\* Variant of StartOfPlayback for FileStartReset: the queue and the
\* pushed-back flag are left as the last file left them.
StartOfPlaybackStale(now) ==
  /\ startMicros' = Micros(now[1], now[2])
  /\ microsSinceStart' = 0
  /\ UNCHANGED <<isPushedBack, numQueued, queue>>

\* "Now is the start of playback for this track."  The queue is the first
\* numQueued cells of queue[], so numQueued = 0 empties it.
StartOfPlayback(now) ==
  /\ startMicros' = Micros(now[1], now[2])
  /\ microsSinceStart' = 0
  /\ isPushedBack' = FALSE
  /\ numQueued' = 0
  /\ queue' = <<>>

EndFileCase(P, now, changeOnOff, changePlayPause, shuffle) ==
  IF changeOnOff
  THEN /\ state' = STATE_STOPPED
       /\ Clock(now)
       /\ did' = Idle
       /\ UNCHANGED <<clockVars, queueVars, orderVars, pauseVars, readerVars,
                      fileVars, tmpLines, arrivals>>
  ELSE IF changePlayPause THEN doPause(now)
  ELSE \E t \in NextTitle(shuffle), f \in P.files :
         /\ nowPlayingIdx' = t[1]
         /\ playOrder' = t[2]
         /\ isShuffled' = t[3]
         /\ Clock(now)
         /\ UNCHANGED <<numPlaylistTitles, playOrderSize, pauseVars, tmpLines>>
         /\ microsPerTick' = FileTempo
         /\ heap' \in NameHeap(heap, FoundLine(t[4]), f)
         /\ IF ~GotFilename(t[4], f)
            THEN /\ state' = STATE_ERROR
                 /\ did' = [Idle EXCEPT !.chosen = t[4], !.file = f]
                 /\ UNCHANGED <<startMicros, microsSinceStart, queueVars,
                                readerVars, fileVars, arrivals>>
            ELSE IF f # "ok"
            THEN \* SD.open() or midiFile.begin() fails
                 /\ state' = STATE_END_FILE
                 /\ did' = [Idle EXCEPT !.opened = TRUE, !.chosen = t[4],
                                         !.file = f]
                 /\ CloseFile
                 /\ UNCHANGED <<startMicros, microsSinceStart, queueVars,
                                readerVars, arrivals>>
            ELSE /\ StartOfPlayback(now)
                 /\ arrivals' = <<>>
                 /\ fileOpen' = TRUE
                 /\ midiOpen' = TRUE
                 /\ ev' = NoEvent
                 /\ evRead' = 0
                 /\ chunks' = 0
                 /\ did' = [Idle EXCEPT !.opened = TRUE, !.chosen = t[4],
                                         !.file = f, !.stale = numQueued]
                 /\ state' = STATE_END_TRACK

(***************************************************************************)
(* case STATE_END_TRACK                                                    *)
(***************************************************************************)
EndTrackCase(P, now, changeOnOff, changePlayPause, skipForward) ==
  IF changeOnOff THEN StopPlaying(now)
  ELSE IF changePlayPause THEN doPause(now)
  ELSE IF skipForward THEN SkipFile(now, Idle) /\ UNCHANGED readerVars
  ELSE \E chunkType \in OpenChunk(P) :
         IF chunkType # "CT_MTRK"
         THEN /\ SkipFile(now, [Idle EXCEPT !.chunk = chunkType])
              /\ UNCHANGED readerVars
         ELSE /\ state' = STATE_EVENTS
              /\ chunks' = chunks + 1
              /\ evRead' = 0
              /\ ev' = NoEvent
              /\ Clock(now)
              /\ did' = [Idle EXCEPT !.chunk = chunkType]
              /\ UNCHANGED <<clockVars, queueVars, orderVars, pauseVars,
                             fileVars, tmpLines, arrivals>>

(***************************************************************************)
(* case STATE_EVENTS                                                       *)
(***************************************************************************)
\* uSecs = midiFile.getEventDeltaTicks() * microsPerTick, a 32-bit product
USecs(e) == MulW(e.deltaTicks, microsPerTick)

\* "uSecs != 0 && numQueued > 0": the event is pushed back
PushBack(e) == USecs(e) # 0 /\ numQueued > 0

\* Variant of TimeOverflows for OverflowGuard: the sum is compared with
\* itself, so the guard never fires.
TimeOverflowsNever(e) ==
  LtU(AddW(microsSinceStart, USecs(e)), AddW(microsSinceStart, USecs(e)))

\* "microsSinceStart + uSecs < microsSinceStart", in unsigned long
TimeOverflows(e) ==
  LtU(AddW(microsSinceStart, USecs(e)), microsSinceStart)

\* Variant of TempoOf for TempoApplied: the quotient is rounded to the
\* nearest microsecond.
TempoOfRounded(e) == (e.uSecPerBeat + TicksPerBeat \div 2) \div TicksPerBeat

\* microsPerTick after a tempo event
TempoOf(e) == e.uSecPerBeat \div TicksPerBeat

\* Variant of QueueFull for QueueBound: the test is off by one.
QueueOverfull == numQueued > MAX_QUEUED_EVENTS

\* "numQueued >= MAX_QUEUED_EVENTS": the note is skipped
QueueFull == numQueued >= MAX_QUEUED_EVENTS

\* Variant of StateAfter for EndOfTrackFlushes: an end-of-track event is
\* passed over like any other meta event.
StateAfterNever(e) == STATE_EVENTS

\* Variant of StateAfter for WaitingAfterEvents: an end-of-track event
\* leads to STATE_WAITING only if notes are queued.
StateAfterIfQueued(e) ==
  IF e.type = "ET_END_TRACK" /\ numQueued > 0
  THEN STATE_WAITING ELSE STATE_EVENTS

\* state after an event that is neither a tempo nor a channel event:
\* "process end of track by playing any delay or queued notes"
StateAfter(e) ==
  IF e.type = "ET_END_TRACK" THEN STATE_WAITING ELSE STATE_EVENTS

EventsCase(P, now, changeOnOff, changePlayPause, skipForward) ==
  IF changeOnOff THEN StopPlaying(now)
  ELSE IF changePlayPause THEN doPause(now)
  ELSE IF skipForward THEN SkipFile(now, Idle) /\ UNCHANGED readerVars
  ELSE \E e \in IF isPushedBack THEN {ev} ELSE ReadEvent(P) :
         LET what == [Idle EXCEPT !.read = ~isPushedBack]
         IN
         /\ ev' = e
         /\ evRead' = IF isPushedBack THEN evRead ELSE evRead + 1
         /\ chunks' = chunks
         /\ IF e.type = "ET_END"
            THEN /\ state' = STATE_END_TRACK
                 /\ isPushedBack' = FALSE
                 /\ Clock(now)
                 /\ did' = what
                 /\ UNCHANGED <<clockVars, queue, numQueued, orderVars,
                                pauseVars, fileVars, tmpLines, arrivals>>
            ELSE IF e.type = "ET_UNK"
            THEN /\ isPushedBack' = FALSE
                 /\ CloseFile
                 /\ state' = STATE_END_FILE
                 /\ Clock(now)
                 /\ did' = what
                 /\ UNCHANGED <<clockVars, queue, numQueued, orderVars,
                                pauseVars, tmpLines, arrivals>>
            ELSE IF PushBack(e)
            THEN /\ isPushedBack' = TRUE
                 /\ state' = STATE_WAITING
                 /\ Clock(now)
                 /\ did' = what
                 /\ UNCHANGED <<clockVars, queue, numQueued, orderVars,
                                pauseVars, fileVars, tmpLines, arrivals>>
            ELSE IF TimeOverflows(e)
            THEN /\ isPushedBack' = FALSE
                 /\ CloseFile
                 /\ state' = STATE_END_FILE
                 /\ Clock(now)
                 /\ did' = [what EXCEPT !.overflow = TRUE]
                 /\ UNCHANGED <<clockVars, queue, numQueued, orderVars,
                                pauseVars, tmpLines, arrivals>>
            ELSE /\ microsSinceStart' = AddW(microsSinceStart, USecs(e))
                 /\ isPushedBack' = FALSE
                 /\ startMicros' = startMicros
                 /\ Clock(now)
                 /\ UNCHANGED <<orderVars, pauseVars, fileVars, tmpLines>>
                 /\ IF e.type = "ET_TEMPO"
                    THEN /\ microsPerTick' = TempoOf(e)
                         /\ did' = [what EXCEPT !.consumed = TRUE]
                         /\ UNCHANGED <<state, queue, numQueued, arrivals>>
                    ELSE IF e.type = "ET_CHANNEL" /\ e.code = "CH_NOTE_ON"
                    THEN /\ arrivals' = Append(arrivals, e.param1)
                         /\ UNCHANGED <<state, microsPerTick>>
                         /\ IF QueueFull
                            THEN /\ did' = [what EXCEPT !.consumed = TRUE,
                                                        !.dropped = TRUE]
                                 /\ UNCHANGED <<queue, numQueued>>
                            ELSE /\ queue' = Append(queue, e.param1)
                                 /\ numQueued' = numQueued + 1
                                 /\ did' = [what EXCEPT !.consumed = TRUE]
                    ELSE /\ state' = StateAfter(e)
                         /\ did' = [what EXCEPT !.consumed = TRUE]
                         /\ UNCHANGED <<microsPerTick, queue, numQueued, arrivals>>

(***************************************************************************)
(* case STATE_WAITING                                                      *)
(***************************************************************************)
\* microsToWait = (microsSinceStart + startMicros) - micros(), a long
MicrosToWait(now) ==
  SubW(AddW(microsSinceStart, startMicros), Micros(now[1], now[2]))

\* Variant of TooLong for WaitingEnds: every wait is left to a later call of
\* loop().
TooLongAlways(now) == TRUE

\* Variant of TooLong for BoundedWait: every wait is taken in one block.
TooLongNever(now) == FALSE

\* "microsToWait > MAX_MICROS_TO_DELAY": wait for another call of loop()
TooLong(now) == MicrosToWait(now) > MAX_MICROS_TO_DELAY

\* "(unsigned int) microsToWait", 16 bits wide on this board: the argument
\* of delayMicroseconds(), 0 when it is not called
DelayArg(now) ==
  IF MicrosToWait(now) > 0 THEN MicrosToWait(now) % 65536 ELSE 0

\* Variant of InRange for FlushStrikes: the upper end of the range is taken
\* in.
InRangeOrNext(noteNum) ==
  MIN_NOTE_NUM <= noteNum /\ noteNum <= MIN_NOTE_NUM + NUM_NOTE_PINS

\* "MIN_NOTE_NUM <= noteNum && noteNum < MIN_NOTE_NUM + NUM_NOTE_PINS"
InRange(noteNum) ==
  MIN_NOTE_NUM <= noteNum /\ noteNum < MIN_NOTE_NUM + NUM_NOTE_PINS

\* the indexes at which the flush reads pinNoteOffset[], in order
Indexes(q) ==
  LET playable == SelectSeq(q, InRange)
  IN  [i \in 1 .. Len(playable) |-> playable[i] - MIN_NOTE_NUM]

\* pinNoteOffset[i]; past the end of the table the read is of whatever
\* follows it in memory, written here as pin 0
PinAt(i) ==
  IF i \in 0 .. NUM_NOTE_PINS - 1 THEN pinNoteOffset[i + 1] ELSE 0

\* the pins the flush pulses, in order
Pulses(q) == [i \in 1 .. Len(Indexes(q)) |-> PinAt(Indexes(q)[i])]

\* Variant of Strike for PulsesComplete: the pin is not set LOW again.
StrikeAndHold(pin) == <<<<pin, "HIGH">>>>

\* digitalWrite(pin, HIGH); delay(MS_PER_STRIKE); digitalWrite(pin, LOW);
Strike(pin) == <<<<pin, "HIGH">>, <<pin, "LOW">>>>

\* the digitalWrite() calls of a flush that pulses pins, in order
RECURSIVE Writes(_)
Writes(pins) ==
  IF pins = <<>> THEN <<>> ELSE Strike(Head(pins)) \o Writes(Tail(pins))

\* the note pins that are HIGH after the first k of the writes w, h being
\* the pins that were HIGH before them
HighAfter(h, w, k) ==
  {p \in h \cup {w[i][1] : i \in 1 .. k} :
     LET last == {i \in 1 .. k : w[i][1] = p}
     IN  IF last = {} THEN TRUE
         ELSE w[CHOOSE i \in last : \A j \in last : j <= i][2] = "HIGH"}

WaitingCase(now, changeOnOff, changePlayPause, skipForward) ==
  IF changeOnOff THEN StopPlaying(now)
  ELSE IF changePlayPause THEN doPause(now)
  ELSE IF skipForward THEN SkipFile(now, Idle) /\ UNCHANGED readerVars
  ELSE IF TooLong(now)
  THEN /\ Clock(now)
       /\ did' = Idle
       /\ UNCHANGED <<state, clockVars, queueVars, orderVars, pauseVars,
                      readerVars, fileVars, tmpLines, arrivals>>
  ELSE LET waited == After(now, DelayArg(now))
           pulses == Pulses(queue)
       IN  /\ Clock(After(waited, Len(pulses) * MS_PER_STRIKE * 1000))
           /\ did' = [Idle EXCEPT !.struck = pulses, !.waited = DelayArg(now),
                                   !.indexed = Indexes(queue),
                                   !.writes = Writes(pulses)]
           /\ numQueued' = 0
           /\ queue' = <<>>
           /\ arrivals' = <<>>
           /\ state' = STATE_EVENTS
           /\ UNCHANGED <<clockVars, isPushedBack, orderVars, pauseVars,
                          readerVars, fileVars, tmpLines>>

(***************************************************************************)
(* Buttons: the five debounce blocks at the top of loop()                  *)
(***************************************************************************)
\* buttonPressed for channel c when digitalRead() of its pin returns level
ButtonPressed(c, level) ==
  IF c \in Inverted THEN ~(level = "LOW") ELSE level = "LOW"

\* changedButton<c>Ms after "if (buttonPressed != pressedButton<c>)"
ChangedMs(c, buttonPressed, ms) ==
  IF buttonPressed # pressedButton[c] THEN ms ELSE changedButtonMs[c]

\* "(millis() - changedButton<c>Ms) > MAX_BOUNCE_MS", in unsigned long
Stable(c, buttonPressed, ms) ==
  LtU(MAX_BOUNCE_MS, SubW(ms, ChangedMs(c, buttonPressed, ms)))

\* heldButton<c> after the block
Held(c, buttonPressed, ms) ==
  IF Stable(c, buttonPressed, ms) /\ buttonPressed # heldButton[c]
  THEN buttonPressed
  ELSE heldButton[c]

\* Variant of Intent for EdgeTriggered: the flag is set on every change of
\* the held state.
IntentOnChange(c, buttonPressed, ms) ==
  /\ Stable(c, buttonPressed, ms)
  /\ buttonPressed # heldButton[c]

\* the flag the block leaves (changeOnOff, changePlayPause, skipBack,
\* skipForward, changeShuffle)
Intent(c, buttonPressed, ms) ==
  /\ Stable(c, buttonPressed, ms)
  /\ buttonPressed # heldButton[c]
  /\ buttonPressed

\* Variant of ShuffleToggle for ShuffleIsLazy: the button is never listened
\* to.
ShuffleToggleNever(changeShuffle) == doShuffle

\* Variant of ShuffleToggle for StoppedIsIdle: the button is listened to in
\* every state.
ShuffleToggleAlways(changeShuffle) ==
  IF changeShuffle THEN ~doShuffle ELSE doShuffle

\* doShuffle after "Listen to the shuffle button only if we're On"
ShuffleToggle(changeShuffle) ==
  IF state # STATE_ERROR /\ state # STATE_STOPPED /\ changeShuffle
  THEN ~doShuffle
  ELSE doShuffle

(***************************************************************************)
(* LEDs: the end of loop()                                                 *)
(***************************************************************************)
\* TRUE is HIGH.  The start sequence of STATE_STOPPED returns from loop()
\* when caching the playlist fails, before the LEDs are written; that is the
\* only step from STATE_STOPPED to STATE_ERROR.
Leds ==
  IF state = STATE_STOPPED /\ state' = STATE_ERROR
  THEN leds' = leds
  ELSE leds' =
         [isOn |-> IF state' = STATE_ERROR THEN ModU1000(clockMs') < 500
                   ELSE state' # STATE_STOPPED,
          playing |-> state' = STATE_PAUSED,
          back |-> heldButton'["Back"],
          forward |-> heldButton'["Forward"],
          shuffle |-> IF state' = STATE_ERROR \/ state' = STATE_STOPPED
                      THEN FALSE ELSE doShuffle']

(***************************************************************************)
(* loop()                                                                  *)
(***************************************************************************)
\* Variant of SkipForwardFlag for BackIsInert: the Back button skips too.
SkipEitherWay(intent) == intent["Forward"] \/ intent["Back"]

\* skipForward as the debounce blocks leave it; skipBack is read nowhere
SkipForwardFlag(intent) == intent["Forward"]

\* switch (state): intent holds the flags the debounce blocks left, shuffle
\* is doShuffle as the shuffle toggle left it
Switch(P, now, intent, shuffle) ==
  CASE state = STATE_ERROR -> ErrorCase(now)
    [] state = STATE_STOPPED ->
         StoppedCase(P, now, intent["On"], shuffle)
    [] state = STATE_PAUSED ->
         PausedCase(now, intent["On"], intent["Play"])
    [] state = STATE_END_FILE ->
         EndFileCase(P, now, intent["On"], intent["Play"], shuffle)
    [] state = STATE_END_TRACK ->
         EndTrackCase(P, now, intent["On"], intent["Play"],
                      SkipForwardFlag(intent))
    [] state = STATE_EVENTS ->
         EventsCase(P, now, intent["On"], intent["Play"],
                    SkipForwardFlag(intent))
    [] state = STATE_WAITING ->
         WaitingCase(now, intent["On"], intent["Play"],
                     SkipForwardFlag(intent))

\* One call of loop(), delay milliseconds after the previous call ended, with
\* the buttons of toggled having changed their raw reading since then.
Step(P, delay, toggled) ==
  LET now == After(<<clockMs, usFrac>>, delay * 1000)
      ms == now[1]
      level == [c \in Channels |->
                  IF (pressedButton[c] = (c \in toggled)) = (c \in Inverted)
                  THEN "LOW" ELSE "HIGH"]
      pressed == [c \in Channels |-> ButtonPressed(c, level[c])]
      intent == [c \in Channels |-> Intent(c, pressed[c], ms)]
      shuffle == ShuffleToggle(intent["Shuffle"])
  IN  /\ changedButtonMs' =
           [c \in Channels |-> ChangedMs(c, pressed[c], ms)]
      /\ heldButton' = [c \in Channels |-> Held(c, pressed[c], ms)]
      /\ pressedButton' = pressed
      /\ intents' = intent
      /\ sampledMs' = ms
      /\ doShuffle' = shuffle
      /\ edges' = IF toggled = {} THEN edges ELSE edges + 1
      /\ nLoops' = nLoops + 1
      /\ Switch(P, now, intent, shuffle)
      /\ high' = HighAfter(high, did'.writes, Len(did'.writes))
      /\ IF did'.started \/ did'.chosen # -1 THEN TRUE ELSE heap' = heap
      /\ Leds

\* One call of loop() in an environment P.  P.chords are the sets of buttons
\* the user works together, P.edges the number of times a reading changes,
\* P.delays the times between two calls.
Loop(P) ==
  /\ nLoops < P.loops
  /\ \E delay \in P.delays, toggled \in P.chords \cup {{}} :
       /\ toggled # {} => edges < P.edges
       /\ Step(P, delay, toggled)

(***************************************************************************)
(* setup()                                                                 *)
(***************************************************************************)
\* The globals as the C++ runtime zeroes them and setup() leaves them:
\* STATE_ERROR when SD.begin() fails, STATE_STOPPED otherwise.  The first
\* call of loop() comes when millis() is one of P.boot.
Setup(P) ==
  /\ state \in {STATE_ERROR, STATE_STOPPED}
  /\ pausedState = 0
  /\ microsBehindNext = 0
  /\ doShuffle = FALSE
  /\ isShuffled = FALSE
  /\ pressedButton = [c \in Channels |-> FALSE]
  /\ heldButton = [c \in Channels |-> FALSE]
  /\ changedButtonMs = [c \in Channels |-> 0]
  /\ microsPerTick = InitialMicrosPerTick
  /\ startMicros = 0
  /\ microsSinceStart = 0
  /\ queue = <<>>
  /\ numQueued = 0
  /\ isPushedBack = FALSE
  /\ numPlaylistTitles = 0
  /\ playOrder = <<>>
  /\ playOrderSize = -1
  /\ nowPlayingIdx = 0
  /\ clockMs \in P.boot
  /\ usFrac = 0
  /\ tmpLines = -1
  /\ fileOpen = FALSE
  /\ midiOpen = FALSE
  /\ ev = NoEvent
  /\ evRead = 0
  /\ chunks = 0
  /\ leds = [isOn |-> FALSE, playing |-> FALSE, back |-> FALSE,
             forward |-> FALSE, shuffle |-> FALSE]
  /\ high = {}
  /\ heap = NoHeap
  /\ did = Idle
  /\ arrivals = <<>>
  /\ pauseMicros = 0
  /\ parked = <<>>
  /\ intents = [c \in Channels |-> FALSE]
  /\ sampledMs = 0
  /\ edges = 0
  /\ nLoops = 0

(***************************************************************************)
(* Environments and specifications                                         *)
(*                                                                         *)
(* An environment P bounds what happens around loop(): when setup() ends   *)
(* (boot), how long after a call the next one comes (delays, in            *)
(* milliseconds), which buttons the user works and how often (chords,      *)
(* edges), how many calls are followed (loops), what the configuration     *)
(* and the playlist on the SD card are like (urls, lists, titles), whether *)
(* the music files open (files) and what they hold (script, tracks).       *)
(***************************************************************************)
AllLists == {"remove", "open", "create", "cache", "write", "mem", "ok"}
AllFiles == {"ok", "nolist", "noopen", "nomidi"}

MaxTitles == 2
MaxTracks == 1
StartEdges == 1

\* A good card with one kind of file; the user only starts the player.  The
\* file holds MusicEvents events of any kind, among them a tempo below one
\* microsecond per tick and deltas of almost an hour.
MusicLoops == 10
MusicEvents == 3
MusicAlphabet ==
  {NoteOn(0, 72), NoteOn(480, 74), NoteOff(480, 72), NoteOff(100000, 72),
   Tempo(0, 500000), Tempo(0, 100), Tempo(0, 16777215), Meta(0),
   EndTrack(0), EndOfEvents, BadEvent}
Music ==
  [boot |-> {6000}, delays |-> {60}, chords |-> {{"On"}}, edges |-> StartEdges,
   loops |-> MusicLoops, script |-> [i \in 1 .. MusicEvents |-> MusicAlphabet],
   tracks |-> MaxTracks, wifi |-> {<<>>}, urls |-> {"file"}, lists |-> {"ok"},
   titles |-> {1}, files |-> {"ok"}]
SpecMusic == Setup(Music) /\ [][Loop(Music)]_vars

\* A file whose first track sounds one note more than there are bars, all at
\* the same instant, then one note later on.
ChordLoops == 28
Scale == [i \in 1 .. MAX_QUEUED_EVENTS + 1 |-> {NoteOn(0, MIN_NOTE_NUM + i - 1)}]
Chord ==
  [boot |-> {6000}, delays |-> {60}, chords |-> {{"On"}}, edges |-> StartEdges,
   loops |-> ChordLoops, script |-> Scale \o <<{NoteOn(100, MIN_NOTE_NUM)}>>,
   tracks |-> MaxTracks, wifi |-> {<<>>}, urls |-> {"file"}, lists |-> {"ok"}, titles |-> {1},
   files |-> {"ok"}]
SpecChord == Setup(Chord) /\ [][Loop(Chord)]_vars

\* Two notes a second apart played across the wrap of micros(), which comes
\* 4294967 ms after power-up: setup() ends early, or so late that the wrap
\* falls in one of the first calls of loop().  The user works On/Off and
\* Play/Pause.
ClockLoops == 11
ClockEdges == 4
Timing ==
  [boot |-> {6000, 4294500, 4294750}, delays |-> {60},
   chords |-> {{"On"}, {"Play"}}, edges |-> ClockEdges, loops |-> ClockLoops,
   script |-> <<{NoteOn(1000000, 72)}, {NoteOn(1000000, 74)}>>, tracks |-> MaxTracks,
   wifi |-> {<<>>}, urls |-> {"file"}, lists |-> {"ok"}, titles |-> {1}, files |-> {"ok"}]
SpecClock == Setup(Timing) /\ [][Loop(Timing)]_vars

\* The user works the buttons while loop() comes round every 25 or 26 ms, so
\* that a raw level is sampled 50 ms and 51 ms after its last change.
ButtonLoops == 7
ButtonEdges == 3
Buttons ==
  [boot |-> {6000}, delays |-> {25, 26},
   chords |-> {{"On"}, {"Play", "Back", "Forward", "Shuffle"}},
   edges |-> ButtonEdges, loops |-> ButtonLoops,
   script |-> <<{NoteOn(0, 72)}>>, tracks |-> MaxTracks, wifi |-> {<<>>}, urls |-> {"file"},
   lists |-> {"ok"}, titles |-> {1}, files |-> {"ok"}]
SpecButtons == Setup(Buttons) /\ [][Loop(Buttons)]_vars

\* The user works On/Off, Play/Pause or all five buttons at once while two
\* notes play.
TransportLoops == 9
TransportEdges == 5
Transport ==
  [boot |-> {6000}, delays |-> {60},
   chords |-> {{"On"}, {"Play"}, Channels}, edges |-> TransportEdges,
   loops |-> TransportLoops, script |-> <<{NoteOn(0, 72)}, {NoteOn(100, 74)}>>,
   tracks |-> MaxTracks, wifi |-> {<<>>}, urls |-> {"file"}, lists |-> {"ok"}, titles |-> {1},
   files |-> {"ok"}]
SpecTransport == Setup(Transport) /\ [][Loop(Transport)]_vars

\* Any card: the configuration names a stream or a file, caching and
\* transforming the playlist fail at any point, files are missing or are not
\* MIDI.  The user works On/Off, Shuffle, Forward or all five buttons at once.
CardLoops == 5
CardEdges == 2
Card ==
  [boot |-> {6000}, delays |-> {60},
   chords |-> {{"On"}, {"Shuffle"}, {"Forward"}, Channels},
   edges |-> CardEdges,
   loops |-> CardLoops, script |-> <<{NoteOn(0, 72)}>>, tracks |-> MaxTracks,
   wifi |-> {<<>>}, urls |-> {"file", "http", "null"}, lists |-> AllLists, titles |-> 0 .. MaxTitles,
   files |-> AllFiles]
SpecCard == Setup(Card) /\ [][Loop(Card)]_vars

\* A playlist of two titles whose files may fail to open, may not be MIDI
\* files, may lack a track, and may hold a byte the reader cannot decode or
\* deltas that add up to more than an unsigned long holds; the playlist
\* itself may become unreadable.  The user starts and stops the player.
FaultLoops == 10
FaultEdges == 3
Faults ==
  [boot |-> {6000}, delays |-> {60}, chords |-> {{"On"}}, edges |-> FaultEdges,
   loops |-> FaultLoops,
   script |-> <<{NoteOn(0, 72), Tempo(0, 16777215)},
                {BadEvent, NoteOff(100000, 72)},
                {BadEvent, NoteOff(100000, 72)}>>,
   tracks |-> MaxTracks, wifi |-> {<<>>}, urls |-> {"file"}, lists |-> {"ok"},
   titles |-> {MaxTitles}, files |-> AllFiles]
SpecFaults == Setup(Faults) /\ [][Loop(Faults)]_vars

\* The user works the Back button, alone or together with Forward, before
\* the start, while a file plays and while the player is paused.
RewindLoops == 7
RewindEdges == 3
Rewind ==
  [boot |-> {6000}, delays |-> {60},
   chords |-> {{"On"}, {"Play"}, {"Back"}, {"Back", "Forward"}},
   edges |-> RewindEdges, loops |-> RewindLoops,
   script |-> <<{NoteOn(0, 72)}, {NoteOn(1000000, 74)}>>,
   tracks |-> MaxTracks, wifi |-> {<<>>}, urls |-> {"file"}, lists |-> {"ok"}, titles |-> {1},
   files |-> {"ok"}]
SpecRewind == Setup(Rewind) /\ [][Loop(Rewind)]_vars

\* A file that opens with a chord of two notes, with notes below and above
\* the chimes among them; the chord is due just before, at or just after a
\* call of loop().  The user starts and stops the player, pauses it and
\* skips.
BeatLoops == 10
BeatEdges == 3
Beat ==
  [boot |-> {6000}, delays |-> {60},
   chords |-> {{"On"}, {"Play"}, {"Forward"}},
   edges |-> BeatEdges, loops |-> BeatLoops,
   script |-> <<{NoteOn(300000, 72), NoteOn(311000, 71), NoteOn(311001, 90),
                 NoteOn(370000, 72)},
                {NoteOn(0, 91), NoteOn(0, 73)},
                {NoteOn(480, 74)}>>,
   tracks |-> MaxTracks, wifi |-> {<<>>}, urls |-> {"file"}, lists |-> {"ok"}, titles |-> {1},
   files |-> {"ok"}]
SpecBeat == Setup(Beat) /\ [][Loop(Beat)]_vars

\* A playlist of MaxTitles one-note files that all play.  The user starts the
\* player and works the Shuffle button while a file plays.
ReorderLoops == 10
ReorderEdges == 4
Reorder ==
  [boot |-> {6000}, delays |-> {60},
   chords |-> {{"On"}, {"Shuffle"}},
   edges |-> ReorderEdges, loops |-> ReorderLoops,
   script |-> <<{NoteOn(0, 72)}>>,
   tracks |-> MaxTracks, wifi |-> {<<>>}, urls |-> {"file"}, lists |-> {"ok"},
   titles |-> {MaxTitles}, files |-> {"ok"}]
SpecReorder == Setup(Reorder) /\ [][Loop(Reorder)]_vars

\* A setting of the configuration file and whether copyValue() finds memory
\* for it.
Setting(name, got) == [name |-> name, got |-> got]

\* A card whose playlist of one title is read in full or fails at that
\* title, at the write or at the allocation of the order, with a
\* configuration file that names no network, a network and its password, the
\* network twice, or a password there is no memory for.  The user starts
\* the player, stops it and starts it again.
CycleLoops == 11
CycleEdges == 5
Cycles ==
  [boot |-> {6000}, delays |-> {60},
   chords |-> {{"On"}},
   edges |-> CycleEdges, loops |-> CycleLoops,
   script |-> <<{NoteOn(0, 72)}>>, tracks |-> MaxTracks,
   wifi |-> {<<>>,
             <<Setting("ssid", TRUE), Setting("password", TRUE)>>,
             <<Setting("ssid", TRUE), Setting("ssid", TRUE)>>,
             <<Setting("ssid", TRUE), Setting("password", FALSE)>>},
   urls |-> {"file", "null"}, lists |-> {"cache", "write", "mem", "ok"},
   titles |-> {1}, files |-> {"ok", "nolist"}]
SpecCycles == Setup(Cycles) /\ [][Loop(Cycles)]_vars

\* A file whose first note is due 600 ms after its start and whose second
\* note comes 600 ms later: the player has to wait for either through
\* several calls of loop().  The file starts where micros() is far from its
\* wrap or just before it.  The user starts the player and may pause it.
\* PatienceSteps calls of loop() cover the longest wait: 600 ms at 60 ms a
\* call, less the calls spent reading the events.
PatienceLoops == 18
PatienceEdges == 2
PatienceSteps == 10
Patience ==
  [boot |-> {6000, 4294500}, delays |-> {60},
   chords |-> {{"On"}, {"Play"}},
   edges |-> PatienceEdges, loops |-> PatienceLoops,
   script |-> <<{NoteOn(600000, 72)}, {NoteOn(600000, 74)}>>,
   tracks |-> MaxTracks, wifi |-> {<<>>}, urls |-> {"file"},
   lists |-> {"ok"}, titles |-> {1}, files |-> {"ok"}]

\* A file at the standard tempo of 500000 microseconds a beat (1041 a tick)
\* whose first note comes after a rest of 480 ticks, of 2070000 ticks (more
\* than 2^31 microseconds) or of 4125830 ticks (more than 2^32
\* microseconds), and is followed by a second note 480 ticks later.  The
\* user starts the player and may pause it.
LongLoops == 12
LongEdges == 2
Long ==
  [boot |-> {6000}, delays |-> {60},
   chords |-> {{"On"}, {"Play"}},
   edges |-> LongEdges, loops |-> LongLoops,
   script |-> <<{Tempo(0, 500000)},
                {NoteOn(480, 72), NoteOn(2070000, 72), NoteOn(4125830, 72)},
                {NoteOn(480, 74)}>>,
   tracks |-> MaxTracks, wifi |-> {<<>>}, urls |-> {"file"},
   lists |-> {"ok"}, titles |-> {1}, files |-> {"ok"}]
SpecLong == Setup(Long) /\ [][Loop(Long)]_vars

\* A call of loop() is made: every call counts itself in nLoops.
Called(P) == nLoops < P.loops /\ nLoops' = nLoops + 1

\* The Arduino core calls loop() again whenever it returns, for as long as
\* the board is powered: a call that can be made is made.
SpecPatience ==
  Setup(Patience) /\ [][Loop(Patience)]_vars /\ WF_nLoops(Called(Patience))

(***************************************************************************)
(* Properties                                                              *)
(***************************************************************************)
\* the states in which a file is being played
Playing ==
  {STATE_END_FILE, STATE_END_TRACK, STATE_EVENTS, STATE_WAITING, STATE_PAUSED}

\* C8: in EndFile, EndTrack, Events, Waiting and Paused a step that carries
\* an On/Off intent ends in Stopped whatever other intents it carries, and
\* that step decodes no event and strikes no note.
OnOffStops ==
  [][(state \in Playing /\ intents'["On"])
       => /\ state' = STATE_STOPPED
          /\ ~did'.read /\ ~did'.consumed
          /\ did'.struck = <<>>]_vars

\* An On/Off intent raised together with the four other intents has stopped
\* the player while notes were queued.
OnOffStopsWitness ==
  /\ state = STATE_STOPPED
  /\ \A c \in Channels : intents[c]
  /\ numQueued > 0

\* C9: once the state is Error every step leaves it Error, whatever the
\* intents; no file is opened, no event is decoded and no bar is struck.
ErrorIsTerminal ==
  [][state = STATE_ERROR
       => /\ state' = STATE_ERROR
          /\ ~did'.opened /\ ~did'.started
          /\ ~did'.read /\ ~did'.consumed
          /\ did'.struck = <<>>
          /\ UNCHANGED fileVars]_vars

\* A start built a playlist, selecting a file from it failed, and a later
\* step in Error carried the Play/Pause, Back, Forward and Shuffle intents.
ErrorIsTerminalWitness ==
  /\ state = STATE_ERROR
  /\ numPlaylistTitles > 0
  /\ \A c \in Channels \ {"On"} : intents[c]

\* C10: in Stopped and in Error a Shuffle intent leaves doShuffle as it was;
\* in Stopped a step without an On/Off intent leaves the state Stopped and
\* the track clock, the queue, the play order and the cursor unchanged.
StoppedIsIdle ==
  [][/\ state \in {STATE_STOPPED, STATE_ERROR} => doShuffle' = doShuffle
     /\ (state = STATE_STOPPED /\ ~intents'["On"])
          => /\ state' = STATE_STOPPED
             /\ UNCHANGED <<clockVars, queueVars, orderVars>>]_vars

\* The player was stopped after playing, and a step in Stopped carried the
\* Shuffle, Play/Pause, Forward and Back intents but no On/Off intent.
StoppedIsIdleWitness ==
  /\ state = STATE_STOPPED
  /\ numPlaylistTitles > 0
  /\ ~intents["On"]
  /\ \A c \in Channels \ {"On"} : intents[c]

\* C7: for every channel the intent flag of a step is true exactly when the
\* held state goes from released to pressed in that step: never when it goes
\* to released, never while it stays pressed.
EdgeTriggered ==
  [][\A c \in Channels :
       intents'[c] <=> (~heldButton[c] /\ heldButton'[c])]_vars

\* The two inverted buttons are held and the last step raised no intent for
\* them; On/Off has started the player and is no longer held.
EdgeTriggeredWitness ==
  /\ heldButton["Forward"] /\ ~intents["Forward"]
  /\ heldButton["Shuffle"] /\ ~intents["Shuffle"]
  /\ state \in Playing /\ ~heldButton["On"]

\* milliseconds from a raw change at changed to a sample at ms
Elapsed(ms, changed) == SubW(ms, changed)

\* C6: for every channel, a raw level that has lasted less than 50 ms at a
\* sample changes neither the held state nor raises the intent; a raw
\* "pressed" that has lasted 50 ms or more while the button is not held
\* makes it held and raises the intent.
Debounced ==
  [][\A c \in Channels :
       /\ LtU(Elapsed(sampledMs', changedButtonMs'[c]), MAX_BOUNCE_MS)
            => (heldButton'[c] = heldButton[c] /\ ~intents'[c])
       /\ (pressedButton'[c] /\ ~heldButton[c]
             /\ ~LtU(Elapsed(sampledMs', changedButtonMs'[c]), MAX_BOUNCE_MS))
            => (heldButton'[c] /\ intents'[c])]_vars

\* the first n elements of sequence q (all of q when it is shorter)
FirstN(q, n) == SubSeq(q, 1, IF Len(q) < n THEN Len(q) ELSE n)

\* C2: numQueued is always within 0 .. MAX_QUEUED_EVENTS and the queue holds
\* the first MAX_QUEUED_EVENTS of the Note-Ons presented since it was last
\* emptied, in arrival order; a step that drops a note leaves the queue full
\* and the state Events.
QueueBound ==
  /\ 0 <= numQueued /\ numQueued <= MAX_QUEUED_EVENTS
  /\ Len(queue) = numQueued
  /\ queue = FirstN(arrivals, MAX_QUEUED_EVENTS)
  /\ did.dropped => (state = STATE_EVENTS /\ numQueued = MAX_QUEUED_EVENTS)

\* One Note-On more than there are bars has been presented at one instant
\* and the last one was dropped.
QueueBoundWitness ==
  /\ did.dropped
  /\ Len(arrivals) = MAX_QUEUED_EVENTS + 1
  /\ microsSinceStart = 0

\* The step processed event ev' (its delta passed the push-back test).
Processed == did'.consumed \/ did'.overflow

\* microsSinceStart + uSecs for the event ev' falls below microsSinceStart
Wraps ==
  LtU(AddW(microsSinceStart, MulW(ev'.deltaTicks, microsPerTick)),
      microsSinceStart)

\* C3: apart from the reset at the start of a file, no step decreases
\* microsSinceStart (as an unsigned long); a step whose accumulation would
\* wrap leaves it unchanged, closes the file and ends in EndFile.
OverflowGuard ==
  [][/\ ~(state = STATE_END_FILE /\ state' = STATE_END_TRACK)
          => ~LtU(microsSinceStart', microsSinceStart)
     /\ (Processed /\ Wraps)
          => /\ microsSinceStart' = microsSinceStart
             /\ state' = STATE_END_FILE
             /\ ~fileOpen' /\ ~midiOpen']_vars

\* The last step abandoned the file at an overflow, with almost an hour of
\* music accumulated.
OverflowGuardWitness ==
  /\ did.overflow
  /\ state = STATE_END_FILE
  /\ microsSinceStart # 0

\* C1: an event with a nonzero delta is never processed while notes are
\* queued (they are flushed first), and a flush strikes the Note-Ons
\* presented since the last flush, in order.
ZeroDeltaBatches ==
  [][/\ (did'.consumed /\ ev'.deltaTicks # 0) => numQueued = 0
     /\ (state = STATE_WAITING /\ state' = STATE_EVENTS
           /\ Len(arrivals) <= MAX_QUEUED_EVENTS)
          => did'.struck = Pulses(arrivals)]_vars

\* (start + since) - micros() when micros() returns t
WaitAt(start, since, t) == SubW(AddW(start, since), t)

\* C4: the wait to the next event is the same, modulo 2^32, right after a
\* resume as it was at the instant of the pause, however long the pause.
ResumeKeepsWait ==
  [][did'.resumed
       => WaitAt(startMicros', microsSinceStart', Micros(clockMs', usFrac'))
            = WaitAt(startMicros, microsSinceStart, pauseMicros)]_vars

\* A track that had accumulated time was paused before micros() wrapped and
\* has been resumed after the wrap.
ResumeKeepsWaitWitness ==
  /\ did.resumed
  /\ microsSinceStart # 0
  /\ LtU(Micros(clockMs, usFrac), pauseMicros)

\* C5: whenever a file is being played (EndFile, EndTrack, Events, Waiting,
\* Paused), playOrder[0 .. numPlaylistTitles-1] holds every index below
\* numPlaylistTitles exactly once.
PlayOrderIsPermutation ==
  state \in Playing
    => /\ Len(playOrder) = numPlaylistTitles
       /\ {playOrder[i] : i \in 1 .. Len(playOrder)} = 0 .. numPlaylistTitles - 1

\* order holds every index below n exactly once
IsPermutation(order, n) ==
  /\ Len(order) = n
  /\ {order[i] : i \in 1 .. Len(order)} = 0 .. n - 1

\* C11, as first stated: from Stopped a step with an On/Off intent ends in
\* EndFile.
StartEndsInEndFile ==
  [][(state = STATE_STOPPED /\ intents'["On"])
       => state' = STATE_END_FILE]_vars

\* C11, amended: from Stopped a step with an On/Off intent runs the start
\* sequence and ends in EndFile or Error: in Error when cacheFile() gives no
\* name for the playlist (an http:// url, or no memory), in EndFile when the
\* configuration names a file and cacheFile() gives its name; then the play
\* order is rebuilt (tagged with doShuffle, a permutation when its storage
\* matches the playlist) and the cursor is put on the last entry.
StartLoads ==
  [][(state = STATE_STOPPED /\ intents'["On"])
       => /\ did'.started
          /\ state' \in {STATE_END_FILE, STATE_ERROR}
          /\ (did'.url = "http" \/ ~did'.named) => state' = STATE_ERROR
          /\ (did'.url = "file" /\ did'.named)
               => /\ state' = STATE_END_FILE
                  /\ isShuffled' = doShuffle'
                  /\ nowPlayingIdx' = U8(numPlaylistTitles' + 255)
                  /\ playOrderSize' = numPlaylistTitles'
                       => IsPermutation(playOrder', numPlaylistTitles')]_vars

\* A start from a good card has built the order of a playlist of MaxTitles
\* entries.
StartLoadsWitness ==
  /\ state = STATE_END_FILE
  /\ did.started /\ did.url = "file"
  /\ numPlaylistTitles = MaxTitles
  /\ playOrderSize = MaxTitles
  /\ nowPlayingIdx = MaxTitles - 1

\* C12: a start that finds no configuration file, or no playUrl in it, ends
\* in Error; no playlist is cached and no play order is built.
ConfigErrorIsFatal ==
  [][(state = STATE_STOPPED /\ intents'["On"] /\ did'.url = "null")
       => /\ state' = STATE_ERROR
          /\ UNCHANGED <<orderVars, tmpLines>>]_vars

\* C13, as first stated: whenever the state is Paused the saved state is
\* EndTrack, Events or Waiting, and no step taken in EndFile, Stopped or
\* Error leads to Paused.
PausedFromTrack ==
  [][/\ state' = STATE_PAUSED
          => pausedState' \in {STATE_END_TRACK, STATE_EVENTS, STATE_WAITING}
     /\ state \in {STATE_END_FILE, STATE_STOPPED, STATE_ERROR}
          => state' # STATE_PAUSED]_vars

\* C13, amended: Paused is entered only by a step with a Play/Pause intent
\* taken in EndFile, EndTrack, Events or Waiting, and that state is the one
\* saved; no step taken in Stopped or Error leads to Paused.
PausedFromPlaying ==
  [][/\ state' = STATE_PAUSED => pausedState' \in Playing \ {STATE_PAUSED}
     /\ state \in {STATE_STOPPED, STATE_ERROR} => state' # STATE_PAUSED
     /\ (state # STATE_PAUSED /\ state' = STATE_PAUSED)
          => (intents'["Play"] /\ ~intents'["On"] /\ pausedState' = state)]_vars

\* The player was paused while selecting a file.
PausedFromPlayingWitness ==
  /\ state = STATE_PAUSED
  /\ pausedState = STATE_END_FILE
  /\ intents["Play"]

\* C14: a Play/Pause intent in Paused returns the player to the state saved
\* at the pause, with the queue, numQueued, the lookahead flag,
\* microsSinceStart, microsPerTick, the play order and the cursor as they
\* were when it was paused; the pause itself and the steps spent in Paused
\* leave startMicros alone, only the resume moves it.
ParkedInPlace ==
  [][/\ did'.resumed => Place' = parked
     /\ (state = STATE_PAUSED /\ intents'["Play"] /\ ~intents'["On"])
          => (did'.resumed /\ state' = pausedState)
     /\ (state' = STATE_PAUSED /\ ~did'.resumed)
          => UNCHANGED <<startMicros, queue, numQueued, isPushedBack,
                         microsSinceStart, microsPerTick, playOrder,
                         nowPlayingIdx, ev, evRead, chunks>>]_vars

\* The player was paused in Waiting with a note queued and an event pushed
\* back, and has been resumed with both in place.
ParkedInPlaceWitness ==
  /\ did.resumed
  /\ state = STATE_WAITING
  /\ numQueued > 0
  /\ isPushedBack
  /\ Place = parked

(***************************************************************************)
(* Skip Forward                                                            *)
(***************************************************************************)
\* A step carries a Skip Forward intent and no On/Off or Play/Pause intent.
SkipsForward == intents'["Forward"] /\ ~intents'["On"] /\ ~intents'["Play"]

Order == <<playOrder, isShuffled, nowPlayingIdx>>

\* C16: a Shuffle intent in a playing state flips doShuffle, and doShuffle
\* changes in no other step.  A step taken in EndTrack, Events, Waiting or
\* Paused leaves the play order, the isShuffled tag and the cursor as they
\* are; they change only in a file selection of EndFile or in the start from
\* Stopped.
ShuffleIsLazy ==
  [][/\ doShuffle' = IF state \in Playing /\ intents'["Shuffle"]
                     THEN ~doShuffle ELSE doShuffle
     /\ state \in {STATE_END_TRACK, STATE_EVENTS, STATE_WAITING, STATE_PAUSED}
          => Order' = Order
     /\ Order' # Order
          => \/ state = STATE_END_FILE /\ did'.chosen # -1
             \/ state = STATE_STOPPED /\ did'.started]_vars

\* In the middle of a track of a two-title playlist a Shuffle intent has set
\* doShuffle, and the order in use is still the unshuffled one.
ShuffleIsLazyWitness ==
  /\ state \in {STATE_END_TRACK, STATE_EVENTS, STATE_WAITING}
  /\ intents["Shuffle"]
  /\ doShuffle /\ ~isShuffled
  /\ numPlaylistTitles = MaxTitles
  /\ playOrder = InOrder(MaxTitles)

(***************************************************************************)
(* The playlist goes round; files that fail are passed over                *)
(***************************************************************************)
\* The cursor would leave the list with this file selection.
PastTheEnd == did'.chosen # -1 /\ U8(nowPlayingIdx + 1) >= numPlaylistTitles

\* C17: a file selection that takes the cursor past the last entry rebuilds
\* the order, puts the cursor on entry 0 and chooses the line that entry
\* holds; it does not end in Stopped.  A step ends in Stopped, coming from
\* another state, only if it carries an On/Off intent.
PlaylistIsCircular ==
  [][/\ PastTheEnd
          => /\ nowPlayingIdx' = 0
             /\ isShuffled' = doShuffle'
             /\ playOrderSize = numPlaylistTitles
                  => IsPermutation(playOrder', numPlaylistTitles)
             /\ numPlaylistTitles > 0 => did'.chosen = playOrder'[1]
             /\ state' # STATE_STOPPED
     /\ (state # STATE_STOPPED /\ state' = STATE_STOPPED) => intents'["On"]]_vars

\* Both titles of the playlist were passed, the second one with a note of
\* the first still queued, and the selection after them has come back to
\* entry 0 and is playing it.
PlaylistIsCircularWitness ==
  /\ did.chosen = 0
  /\ nowPlayingIdx = 0
  /\ numPlaylistTitles = MaxTitles
  /\ state = STATE_END_FILE
  /\ did.file # "ok"
  /\ numQueued > 0

\* The step met a file that does not open, a file that is not a MIDI file,
\* a chunk that is not a track, an event the reader cannot decode, or a
\* delta that takes the track clock past the end of an unsigned long.
Fault ==
  \/ did'.opened /\ did'.file \in {"noopen", "nomidi"}
  \/ did'.chunk \in {"CT_END", "CT_OTHER"}
  \/ did'.read /\ ev'.type = "ET_UNK"
  \/ did'.overflow

\* C19: a step that meets one of these faults ends in EndFile with the file
\* and the MIDI stream closed (never in Error or Stopped).  The next step in
\* EndFile, unless it carries an On/Off or Play/Pause intent, selects a
\* file, and that selection moves the cursor to another entry of PlayOrder
\* and chooses the line that entry holds.
Recoverable ==
  [][/\ Fault => state' = STATE_END_FILE /\ ~fileOpen' /\ ~midiOpen'
     /\ (state = STATE_END_FILE /\ ~intents'["On"] /\ ~intents'["Play"])
          => did'.chosen # -1
     /\ (did'.chosen # -1 /\ numPlaylistTitles > 1)
          => /\ nowPlayingIdx' # nowPlayingIdx
             /\ nowPlayingIdx' < numPlaylistTitles
             /\ did'.chosen = playOrder'[nowPlayingIdx' + 1]
             /\ did'.chosen # playOrder[nowPlayingIdx + 1]]_vars

\* The first file was given up at its last event, whose delta overflows the
\* track clock, and a later step has selected entry 1 of PlayOrder, a file
\* that does not open.
RecoverableWitness ==
  /\ did.chosen = 1
  /\ nowPlayingIdx = 1
  /\ did.file = "noopen"
  /\ evRead = Len(Faults.script)
  /\ ev = NoteOff(100000, 72)
  /\ LtU(MaxLong, microsSinceStart)
  /\ microsPerTick = 16777215 \div TicksPerBeat

(***************************************************************************)
(* Tempo                                                                   *)
(***************************************************************************)
\* The step processed a tempo event.
TempoProcessed == did'.consumed /\ ev'.type = "ET_TEMPO"

\* C18: the step that processes a tempo event sets microsPerTick to the
\* quotient of the event's microseconds per beat by the ticks per beat,
\* rounded down (1041 for 500000 at 480 ticks per beat); no other step
\* changes microsPerTick.  Every event processed advances microsSinceStart
\* by its delta times the microsPerTick the step started with, the one the
\* last tempo event before it left: by 480 * 1041 = 499680 for a delta of
\* 480 ticks after that tempo event.
TempoApplied ==
  [][/\ TempoProcessed
          => /\ microsPerTick' * TicksPerBeat <= ev'.uSecPerBeat
             /\ ev'.uSecPerBeat < (microsPerTick' + 1) * TicksPerBeat
             /\ (ev'.uSecPerBeat = 500000 /\ TicksPerBeat = 480)
                  => microsPerTick' = 1041
     /\ ~TempoProcessed => microsPerTick' = microsPerTick
     /\ did'.consumed
          => /\ microsSinceStart' =
                  AddW(microsSinceStart, MulW(ev'.deltaTicks, microsPerTick))
             /\ (microsPerTick = 1041 /\ ev'.deltaTicks = 480)
                  => microsSinceStart' = AddW(microsSinceStart, 499680)]_vars

\* A tempo event of 500000 microseconds per beat was processed at the start
\* of the track, and the event after it, 480 ticks later, has been
\* processed too.
TempoAppliedWitness ==
  /\ did.consumed
  /\ ev.deltaTicks = 480
  /\ microsPerTick = 1041
  /\ microsSinceStart = 499680

(***************************************************************************)
(* The On/Off LED                                                          *)
(***************************************************************************)
\* C20: at the end of every step the On/Off LED is off if state = Stopped,
\* is in its blink pattern (lit in the first 500 ms of each 1000 ms) if
\* state = Error, and is lit in every other state.
OnLedShowsState ==
  [][leds'.isOn = IF state' = STATE_STOPPED THEN FALSE
                  ELSE IF state' = STATE_ERROR THEN ModU1000(clockMs') < 500
                  ELSE TRUE]_vars

(***************************************************************************)
(* The Play/Pause LED                                                      *)
(***************************************************************************)
\* C21: at the end of every step the Play/Pause LED is lit if the player is
\* in EndFile, EndTrack, Events or Waiting, and is in the blink pattern (lit
\* in the first 500 ms of each 1000 ms) if the player is Paused.
PlayingLedShowsPlaying ==
  [][/\ state' \in Playing \ {STATE_PAUSED} => leds'.playing
     /\ state' = STATE_PAUSED => leds'.playing = (ModU1000(clockMs') < 500)]_vars

(***************************************************************************)
(* The Back button                                                         *)
(***************************************************************************)
\* the four other buttons
Others == Channels \ {"Back"}

\* A call of loop() that finds the Back button released, and so takes no
\* Back press; what it does to the Back button's own debounce variables, its
\* flag and its LED is left open.
WithoutBack(P) ==
  \E delay \in P.delays, toggled \in SUBSET Others :
    LET now == After(<<clockMs, usFrac>>, delay * 1000)
        ms == now[1]
        level == [c \in Channels |->
                    IF (pressedButton[c] = (c \in toggled)) = (c \in Inverted)
                    THEN "LOW" ELSE "HIGH"]
        pressed == [c \in Channels |-> c # "Back" /\ ButtonPressed(c, level[c])]
        intent == [c \in Channels |-> c # "Back" /\ Intent(c, pressed[c], ms)]
        shuffle == ShuffleToggle(intent["Shuffle"])
    IN  /\ \A c \in Others :
             /\ changedButtonMs'[c] = ChangedMs(c, pressed[c], ms)
             /\ heldButton'[c] = Held(c, pressed[c], ms)
             /\ pressedButton'[c] = pressed[c]
             /\ intents'[c] = intent[c]
        /\ sampledMs' = ms
        /\ doShuffle' = shuffle
        /\ nLoops' = nLoops + 1
        /\ Switch(P, now, intent, shuffle)
        /\ high' = HighAfter(high, did'.writes, Len(did'.writes))
        /\ [leds' EXCEPT !.back = FALSE] =
             [isOn |-> IF state' = STATE_ERROR THEN ModU1000(clockMs') < 500
                       ELSE state' # STATE_STOPPED,
              playing |-> state' = STATE_PAUSED,
              back |-> FALSE,
              forward |-> heldButton'["Forward"],
              shuffle |-> IF state' = STATE_ERROR \/ state' = STATE_STOPPED
                          THEN FALSE ELSE doShuffle']
           \/ (state = STATE_STOPPED /\ state' = STATE_ERROR /\ leds' = leds)

Waits ==
  /\ state = STATE_WAITING
  /\ ~intents'["On"] /\ ~intents'["Play"] /\ ~intents'["Forward"]

\* (microsSinceStart + startMicros) - micros() as a long, micros() being
\* read when millis() = ms and frac microseconds have passed since
ToWait(ms, frac) ==
  SubW(AddW(microsSinceStart, startMicros), AddW(MulW(ms, 1000), frac))

\* C23: a step in Waiting whose microsToWait exceeds MAX_MICROS_TO_DELAY
\* does not block and strikes nothing: the clock ends where the step found
\* it, the state is still Waiting, and the queue, numQueued, the lookahead
\* flag, startMicros, microsSinceStart and microsPerTick are unchanged.  A
\* step whose microsToWait does not exceed it blocks for exactly
\* microsToWait if that is positive, and not at all otherwise.
\* delayMicroseconds() is never called with an argument outside
\* 1 .. MAX_MICROS_TO_DELAY, and in no state but Waiting.
BoundedWait ==
  [][/\ (Waits /\ ToWait(sampledMs', usFrac) > MAX_MICROS_TO_DELAY)
          => /\ did'.waited = 0 /\ did'.struck = <<>>
             /\ clockMs' = sampledMs' /\ usFrac' = usFrac
             /\ state' = STATE_WAITING
             /\ UNCHANGED <<queue, numQueued, isPushedBack, startMicros,
                            microsSinceStart, microsPerTick>>
     /\ (Waits /\ ToWait(sampledMs', usFrac) <= MAX_MICROS_TO_DELAY)
          => did'.waited = IF ToWait(sampledMs', usFrac) > 0
                           THEN ToWait(sampledMs', usFrac) ELSE 0
     /\ did'.waited # 0
          => /\ Waits
             /\ 0 < did'.waited /\ did'.waited <= MAX_MICROS_TO_DELAY]_vars

\* After a step that left the wait to a later call of loop(), a step has
\* blocked for the 10 ms that were left and has struck the chord.
BoundedWaitWitness ==
  /\ did.waited = 10000
  /\ Len(did.struck) > 0
  /\ state = STATE_EVENTS
  /\ microsSinceStart = 370000

\* the chime a note of the supported range sounds: C5 (72) is the first
ChimeOf(noteNum) == noteNum - 72 + 1

\* the notes of q that have a chime, in order
RECURSIVE Chimed(_)
Chimed(q) ==
  IF q = <<>> THEN <<>>
  ELSE IF 72 <= Head(q) /\ Head(q) < 72 + 19
       THEN <<Head(q)>> \o Chimed(Tail(q))
       ELSE Chimed(Tail(q))

\* C24: a step in Waiting that flushes pulses, for each queued note from 72
\* up to 90 and in the order of the queue, the pin pinNoteOffset holds for
\* that note, once; a note outside that range pulses no pin.  The table is
\* read at indexes 0 .. NUM_NOTE_PINS - 1 only; the step ends in Events with
\* numQueued = 0, whatever the notes were.
FlushStrikes ==
  [][(Waits /\ ToWait(sampledMs', usFrac) <= MAX_MICROS_TO_DELAY)
       => /\ Len(did'.struck) = Len(Chimed(queue))
          /\ \A i \in 1 .. Len(did'.struck) :
               did'.struck[i] = pinNoteOffset[ChimeOf(Chimed(queue)[i])]
          /\ \A i \in 1 .. Len(did'.indexed) :
               0 <= did'.indexed[i] /\ did'.indexed[i] < NUM_NOTE_PINS
          /\ numQueued' = 0
          /\ state' = STATE_EVENTS]_vars

\* A chord of a note below the chimes and a note above them was flushed:
\* nothing was struck and the player reads on.
FlushStrikesWitness ==
  /\ arrivals = <<>> /\ numQueued = 0
  /\ did.struck = <<>> /\ did.waited > 0
  /\ state = STATE_EVENTS
  /\ microsSinceStart = 311000

(***************************************************************************)
(* The note pins                                                           *)
(***************************************************************************)
\* C25: every step ends with all note pins LOW, whatever state it ends in
\* and whatever intent it carried; while a step writes the note pins at most
\* one of them is HIGH at any instant.  Only a flush in Waiting writes them.
PulsesComplete ==
  [][/\ high' = {}
     /\ \A k \in 0 .. Len(did'.writes) :
          Cardinality(HighAfter(high, did'.writes, k)) <= 1
     /\ \A i \in 1 .. Len(did'.writes) :
          \E n \in 1 .. NUM_NOTE_PINS : did'.writes[i][1] = pinNoteOffset[n]
     /\ did'.writes # <<>> => Waits]_vars

\* A chord of two chimes was struck: four writes, and no pin is left HIGH.
PulsesCompleteWitness ==
  /\ Len(did.writes) = 4
  /\ did.writes[1][1] # did.writes[3][1]
  /\ high = {}
  /\ state = STATE_EVENTS

(***************************************************************************)
(* From Events to Waiting                                                  *)
(***************************************************************************)
\* The step leaves Events for Waiting.
StartsWaiting == state = STATE_EVENTS /\ state' = STATE_WAITING

\* C26: every step from Events to Waiting ends with notes queued; an
\* end-of-track event that finds the queue empty does not lead to Waiting.
WaitingOnlyWithNotes == [][StartsWaiting => numQueued' > 0]_vars

\* C26, amended: a step goes from Events to Waiting either because it pushes
\* an event back (its microsecond delta is not 0 and notes are queued; the
\* delta is not counted yet), or because it processes an end-of-track event,
\* whose delta it adds to microsSinceStart whether notes are queued or not.
\* Every end-of-track event that is processed leads to Waiting.
WaitingAfterEvents ==
  [][/\ StartsWaiting
          => \/ /\ isPushedBack' /\ ~did'.consumed
                /\ numQueued > 0 /\ UNCHANGED <<numQueued, microsSinceStart>>
                /\ MulW(ev'.deltaTicks, microsPerTick) # 0
             \/ /\ ~isPushedBack' /\ did'.consumed
                /\ ev'.type = "ET_END_TRACK"
                /\ UNCHANGED numQueued
                /\ microsSinceStart' =
                     AddW(microsSinceStart, MulW(ev'.deltaTicks, microsPerTick))
     /\ (state = STATE_EVENTS /\ did'.consumed /\ ev'.type = "ET_END_TRACK")
          => state' = STATE_WAITING]_vars

\* An end-of-track event was processed with no note queued, and the player
\* is in Waiting.
WaitingAfterEventsWitness ==
  /\ state = STATE_WAITING
  /\ did.consumed /\ ev.type = "ET_END_TRACK"
  /\ numQueued = 0 /\ ~isPushedBack
  /\ evRead > 1

\* C27: a step in Events that meets an end-of-track event while notes are
\* queued ends in Waiting with the queue as it was.  A step in Waiting
\* without an On/Off, Play/Pause or Skip Forward intent either leaves the
\* queue alone and stays in Waiting or flushes the whole queue and goes back
\* to Events.  So a step that goes from Events to EndTrack after an
\* end-of-track event finds the queue empty.
EndOfTrackFlushes ==
  [][/\ (/\ state = STATE_EVENTS /\ ev'.type = "ET_END_TRACK"
         /\ did'.read \/ did'.consumed
         /\ numQueued > 0)
          => state' = STATE_WAITING /\ UNCHANGED <<queue, numQueued>>
     /\ Waits
          => \/ state' = STATE_WAITING /\ UNCHANGED <<queue, numQueued>>
             \/ /\ state' = STATE_EVENTS
                /\ did'.indexed = Indexes(queue)
                /\ Len(did'.struck) = Len(did'.indexed)
                /\ numQueued' = 0
     /\ (/\ state = STATE_EVENTS /\ state' = STATE_END_TRACK
         /\ ev.type = "ET_END_TRACK")
          => numQueued = 0]_vars

\* The notes that were queued when the end-of-track event was met have just
\* been struck: the event is still the current one, the queue is empty and
\* the player is back in Events, about to read the end of the chunk.
EndOfTrackFlushesWitness ==
  /\ state = STATE_EVENTS
  /\ ev.type = "ET_END_TRACK"
  /\ did.struck # <<>> /\ Len(did.struck) = Len(did.indexed)
  /\ numQueued = 0 /\ high = {}

\* C28: every step from EndFile to EndTrack sets startMicros to the time of
\* the step and microsSinceStart to 0, clears the pushed-back flag and
\* empties the queue; and EndFile goes to EndTrack only when the file and
\* its MIDI stream were opened.
FileStartReset ==
  [][(state = STATE_END_FILE /\ state' = STATE_END_TRACK)
       => /\ startMicros' = Micros(clockMs', usFrac')
          /\ microsSinceStart' = 0
          /\ ~isPushedBack'
          /\ numQueued' = 0 /\ queue' = <<>>
          /\ did'.opened /\ did'.file = "ok"
          /\ fileOpen' /\ midiOpen']_vars

\* A file has just been started after a file was left with notes queued:
\* the new file starts with an empty queue and nothing pushed back.
FileStartResetWitness ==
  /\ state = STATE_END_TRACK
  /\ did.opened /\ did.file = "ok"
  /\ did.stale > 0
  /\ numQueued = 0 /\ ~isPushedBack /\ microsSinceStart = 0
  /\ startMicros = Micros(clockMs, usFrac)

(***************************************************************************)
(* When the play order is rebuilt                                          *)
(***************************************************************************)
\* The step selects a file: getNextFilename() is called.
Selects == did'.chosen # -1

\* The condition of getNextFilename() for calling setPlayOrder(), on the
\* cursor as the step finds it and doShuffle as the step leaves it.
MustRebuild ==
  \/ U8(nowPlayingIdx + 1) >= numPlaylistTitles
  \/ doShuffle' # isShuffled

\* C29: a step of EndFile without an On/Off or Play/Pause intent selects a
\* file, and no other step does.  If the cursor plus one is at or past
\* numPlaylistTitles, or doShuffle differs from the isShuffled tag, the
\* selection builds the order anew for doShuffle, tags it so and puts the
\* cursor on 0; otherwise it leaves the order and the tag alone, moves the
\* cursor on by one and chooses the line that entry holds.  Every selection
\* leaves the tag equal to doShuffle, and between selections the tag moves
\* only in the start from Stopped while doShuffle flips exactly at a Shuffle
\* intent, so an even number of Shuffle intents between two selections
\* brings no rebuild by itself.
RebuildRule ==
  [][/\ Selects <=> (state = STATE_END_FILE /\ ~intents'["On"] /\ ~intents'["Play"])
     /\ (Selects /\ MustRebuild)
          => /\ nowPlayingIdx' = 0
             /\ isShuffled' = doShuffle'
             /\ playOrder' \in SetPlayOrder(numPlaylistTitles, playOrderSize,
                                            doShuffle')
     /\ (Selects /\ ~MustRebuild)
          => /\ nowPlayingIdx' = nowPlayingIdx + 1
             /\ UNCHANGED <<playOrder, isShuffled>>
             /\ did'.chosen = playOrder[nowPlayingIdx + 2]
     /\ Selects => isShuffled' = doShuffle'
     /\ (~Selects /\ ~did'.started) => UNCHANGED <<isShuffled, playOrder, nowPlayingIdx>>
     /\ (doShuffle' # doShuffle) <=> (state \in Playing /\ intents'["Shuffle"])]_vars

\* The selection of the second entry of the unshuffled order carries a
\* Shuffle intent that has put doShuffle back to false: doShuffle was set
\* and cleared again since the selection of the first entry, and the order
\* was not rebuilt.
RebuildRuleWitness ==
  /\ did.chosen = 1
  /\ nowPlayingIdx = 1
  /\ intents["Shuffle"]
  /\ ~doShuffle /\ ~isShuffled
  /\ playOrder = InOrder(MaxTitles)
  /\ state = STATE_END_TRACK

(***************************************************************************)
(* The heap across starts, stops and file selections                       *)
(***************************************************************************)
\* the owners that hold a block
Holding == {o \in Owners : heap.ptr[o] = "live"}

\* C30: after every call of loop() each pointer is null or holds a block
\* that is allocated, never the address of a freed block; the blocks that
\* are allocated are exactly the ones the pointers hold, one for each
\* holding owner; cachedName holds nothing once transformSDPlaylist() has
\* returned; and playOrder holds a block exactly when the order has storage.
NoLeak ==
  /\ \A o \in Owners : heap.ptr[o] \in {"null", "live"}
  /\ heap.live = Cardinality(Holding)
  /\ heap.ptr["cachedName"] = "null"
  /\ heap.ptr["playOrder"] = "live" <=> playOrderSize >= 0

\* The player has been started, stopped and started again and is on its
\* second file selection or a later one: every owner has had a block freed,
\* and the six global pointers each hold one block.
NoLeakWitness ==
  /\ heap.freed = Owners
  /\ Holding = Owners \ {"cachedName"}
  /\ heap.live = 6
  /\ state = STATE_END_TRACK

(***************************************************************************)
(* Waiting comes to an end                                                 *)
(***************************************************************************)
\* C31: when the player is in Waiting and PatienceSteps calls of loop() are
\* still to come, the player leaves Waiting: the queue has been flushed and
\* the player is back in Events, or an On/Off or Play/Pause intent has taken
\* it to Stopped or Paused.
WaitingEnds ==
  (state = STATE_WAITING /\ nLoops + PatienceSteps <= PatienceLoops)
    ~> \/ state = STATE_EVENTS /\ numQueued = 0
       \/ state \in {STATE_STOPPED, STATE_PAUSED}

\* The first note, due 600 ms after the start of the file, has been struck
\* after a wait that went through several calls of loop(); the second note
\* is held back for its own wait.
WaitingEndsWitness ==
  /\ state = STATE_EVENTS
  /\ did.struck # <<>>
  /\ microsSinceStart = 600000
  /\ isPushedBack
  /\ numQueued = 0
  /\ SubW(Micros(clockMs, usFrac), startMicros) >= 600000

(***************************************************************************)
(* The lookahead event and the accounting of deltas                        *)
(***************************************************************************)
\* d * m > 2^32 - 1 - microsSinceStart for d >= 0 and m > 0, with
\* microsSinceStart read as an unsigned long; computed on quotients so that
\* nothing leaves 32 bits.
OverRoom(d, m) ==
  IF microsSinceStart < 0 THEN d > (-1 - microsSinceStart) \div m
  ELSE IF d <= MaxLong \div m THEN FALSE
  ELSE d - (MaxLong \div m)
         > ((MaxLong - microsSinceStart) \div m)
           + ((MaxLong % m) + ((MaxLong - microsSinceStart) % m) + 1) \div m

\* In exact arithmetic microsSinceStart + deltaTicks * microsPerTick for
\* the event e is more than 2^32 - 1.
Exceeds(e) == microsPerTick > 0 /\ OverRoom(e.deltaTicks, microsPerTick)

\* The step takes the event that was pushed back.
Reprocesses ==
  /\ state = STATE_EVENTS /\ isPushedBack
  /\ ~intents'["On"] /\ ~intents'["Play"] /\ ~intents'["Forward"]

\* The lookahead part of C32, and its accounting part in 32-bit
\* arithmetic: a step of Events that finds an event pushed back finds
\* the queue empty, reads no new event, takes the event that was pushed
\* back and does not push it back again; microsSinceStart moves only when an
\* event is consumed, by deltaTicks * microsPerTick modulo 2^32 with the
\* microsPerTick the step found, and at the start of a file.
LookaheadOnce ==
  [][/\ (state = STATE_EVENTS /\ isPushedBack) => numQueued = 0
     /\ Reprocesses
          => /\ ~did'.read /\ ev' = ev /\ evRead' = evRead
             /\ ~isPushedBack'
             /\ did'.consumed \/ did'.overflow
     /\ isPushedBack' => (~did'.consumed /\ UNCHANGED microsSinceStart)
     /\ did'.consumed
          => microsSinceStart' =
               AddW(microsSinceStart, MulW(ev'.deltaTicks, microsPerTick))
     /\ (~did'.consumed /\ ~(state = STATE_END_FILE /\ state' = STATE_END_TRACK))
          => UNCHANGED microsSinceStart]_vars

\* C32: the lookahead event is taken exactly once and every delta is counted
\* exactly once: besides the above, the deltaTicks * microsPerTick that a
\* consumed event adds to microsSinceStart is the exact product, so that
\* microsSinceStart is the exact sum of the products since the start of the
\* file.
DeltasCountedOnce ==
  [][/\ (state = STATE_EVENTS /\ isPushedBack) => numQueued = 0
     /\ Reprocesses
          => /\ ~did'.read /\ ev' = ev
             /\ ~isPushedBack'
     /\ did'.consumed
          => /\ ~Exceeds(ev')
             /\ microsSinceStart' =
                  AddW(microsSinceStart, MulW(ev'.deltaTicks, microsPerTick))]_vars

(***************************************************************************)
(* Notes are not struck before their time                                  *)
(***************************************************************************)
\* micros() when the flush of this step begins to strike: the reading the
\* step took, and the time it blocked for after that
StrikeMicros == AddW(Micros(sampledMs', usFrac), did'.waited)

\* C33: when a step flushes the queue, the time since startMicros is at
\* least microsSinceStart (both as unsigned long): the notes are struck at
\* or after the instant they are scheduled for, never before.
NeverEarly ==
  [][(state = STATE_WAITING /\ state' = STATE_EVENTS)
       => ~LtU(SubW(StrikeMicros, startMicros), microsSinceStart)]_vars

(***************************************************************************)
(* Overflow of the track clock in exact arithmetic                         *)
(***************************************************************************)
\* C34: when a step goes on to account for an event whose delta, in exact
\* arithmetic, takes microsSinceStart + deltaTicks * microsPerTick beyond
\* 2^32 - 1, the step abandons the file: microsSinceStart is left as it
\* was and the player ends in EndFile with the file closed.
EveryOverflowCaught ==
  [][(Processed /\ Exceeds(ev'))
       => /\ did'.overflow /\ ~did'.consumed
          /\ microsSinceStart' = microsSinceStart
          /\ state' = STATE_END_FILE
          /\ ~fileOpen' /\ ~midiOpen']_vars

(***************************************************************************)
(* The length of a tick                                                    *)
(***************************************************************************)
\* C35: microsPerTick is at least 1 in every state, and an event with a
\* nonzero deltaTicks that a step takes up has a nonzero microsecond delta.
TicksTakeTime ==
  /\ microsPerTick >= 1
  /\ (did.read /\ ev.deltaTicks # 0) => MulW(ev.deltaTicks, microsPerTick) # 0

(***************************************************************************)
(* The cursor and the storage of the play order                            *)
(***************************************************************************)
\* C36: a file selection reads playOrder[nowPlayingIdx] with the cursor
\* inside the playlist: the cursor it leaves, which is the one it read at,
\* is below numPlaylistTitles.
CursorInList ==
  [][Selects => (0 <= nowPlayingIdx' /\ nowPlayingIdx' < numPlaylistTitles)]_vars

\* C37: when the start from Stopped builds the play order and goes on to
\* EndFile, and when a file selection rebuilds it, playOrder is an
\* allocation of exactly numPlaylistTitles entries; transformSDPlaylist()
\* has then run to its end.
OrderFitsList ==
  [][/\ (did'.started /\ state' = STATE_END_FILE)
          => /\ playOrderSize' = numPlaylistTitles'
             /\ heap'.ptr["playOrder"] = "live"
             /\ tmpLines' = numPlaylistTitles'
     /\ (Selects /\ MustRebuild) => playOrderSize = numPlaylistTitles]_vars

\* C38: a step from Events to EndTrack, at the end of a track's events,
\* finds the queue empty.
TrackEndsFlushed ==
  [][(state = STATE_EVENTS /\ state' = STATE_END_TRACK) => numQueued = 0]_vars

(***************************************************************************)
(* The tempo outlives the file                                             *)
(***************************************************************************)
\* C39: microsPerTick changes only in a step of Events that consumes a
\* tempo event, and then to that event's microseconds per beat divided by
\* the ticks per beat; the start of a file, a skip, a pause, a resume, a
\* stop and a start leave it as it is.
TempoOutlivesFile ==
  [][/\ microsPerTick' # microsPerTick
          => /\ state = STATE_EVENTS
             /\ did'.consumed /\ ev'.type = "ET_TEMPO"
             /\ microsPerTick' = ev'.uSecPerBeat \div TicksPerBeat
     /\ (did'.opened \/ did'.started \/ did'.resumed
           \/ state' \in {STATE_STOPPED, STATE_PAUSED, STATE_END_FILE})
          => UNCHANGED microsPerTick]_vars

\* A file has just been opened and its playback started while microsPerTick
\* is what a tempo event of the file before it left.
TempoOutlivesFileWitness ==
  /\ state = STATE_END_TRACK
  /\ did.opened /\ did.file = "ok"
  /\ microsSinceStart = 0 /\ evRead = 0
  /\ microsPerTick = 16777215 \div TicksPerBeat

(***************************************************************************)
(* The isShuffled tag and the order it describes                           *)
(***************************************************************************)
\* The step has called setPlayOrder(): in the start from Stopped, or in a
\* selection that found the cursor at the end or the tag different.
Rebuilds == (did'.started /\ state' = STATE_END_FILE) \/ (Selects /\ MustRebuild)

\* The tag says "not shuffled" and the order is playOrder[i] = i for every
\* i < numPlaylistTitles.
TagMatchesOrder == ~isShuffled => playOrder = InOrder(numPlaylistTitles)

\* Immediately after a rebuild the tag equals doShuffle.
TagAfterRebuild == [][Rebuilds => isShuffled' = doShuffle']_vars

\* C40: immediately after every rebuild of the play order isShuffled equals
\* doShuffle, and in EndTrack, Events, Waiting and Paused a false isShuffled
\* means that playOrder is the identity order over numPlaylistTitles.
ShuffleTagConsistent ==
  [][/\ Rebuilds => isShuffled' = doShuffle'
     /\ (state' \in {STATE_END_TRACK, STATE_EVENTS, STATE_WAITING, STATE_PAUSED})
          => TagMatchesOrder']_vars

=============================================================================
